---- MODULE Spec2Model ----
(***************************************************************************)
(* AgentBlackBoxRecorder: the trace-capture engine.                        *)
(*                                                                         *)
(* The Recorder keeps one current session and one stack of open spans,     *)
(* both shared by every thread and guarded by one re-entrant lock.  Event  *)
(* and session objects are modelled as entries of the sequences `events`   *)
(* and `sessions`; a reference to an object is its index, its `id` field   *)
(* is the uuid4 the code draws for it.  Every method that runs under       *)
(* `with self._lock` is one atomic action; the parts of a span scope that  *)
(* run outside the lock (span.complete / span.fail) are steps of their     *)
(* own, so other threads interleave between them.                          *)
(***************************************************************************)
EXTENDS Integers, Sequences, FiniteSets, TLC

\* ------------------------------------------------------------- bounds
\* at most this many objects (sessions, events, snapshots) are created in a run
MaxObjects == 4

Threads == {"t1", "t2"}

\* ------------------------------------------------------------- values
None == 0
NoId == 0

RUNNING == "running"
SUCCESS == "success"
ERROR == "error"
CANCELLED == "cancelled"
EventStatus == {RUNNING, SUCCESS, ERROR, CANCELLED}
Terminal == {SUCCESS, ERROR, CANCELLED}
\* the statuses callers pass to end_session: the default and another one
EndStatuses == {SUCCESS, ERROR}

\* the two scoped-span forms: Recorder.span (context manager) and @trace
ScopeKinds == {"span", "trace"}
\* how the body of a scope ends: normal completion, an Exception, or a
\* BaseException that is no Exception (asyncio.CancelledError, KeyboardInterrupt)
BodyOutcomes == {"return", "raise", "cancel"}
\* the message of the exception a body raises
ErrMsg == "boom"

Top(stack) == stack[Len(stack)]
Pop(stack) == SubSeq(stack, 1, Len(stack) - 1)

VARIABLES
    current_session,  \* Recorder._current_session: a session reference or None
    event_stack,      \* Recorder._event_stack: references of the open spans
    sessions,         \* every TraceSession object created so far
    events,           \* every TraceEvent object created so far
    snapshots,        \* every StateSnapshot object created so far
    storage,          \* the dumps handed to StorageBackend.save_session, in order
    scopes,           \* per thread: the span scopes it is inside, outermost first
    span_log          \* per event: what the scope that opened it has done so far

\* decorators.py: the current-recorder handle and the execution contexts
VARIABLES
    contexts,         \* every execution context: its kind and its value of _recorder_ctx
    recorders,        \* how many Recorder objects have been constructed
    trace_calls       \* per call of a @trace wrapper: its context and the recorder it got

\* recorder.py at the grain of single statements
VARIABLES
    lock,             \* Recorder._lock, a threading.RLock: its owner and hold count
    pc                \* per thread: the recorder method it is in, where, and its locals

\* snapshot.py
VARIABLES
    heap,             \* the objects of the value handed to SnapshotEngine.capture
    captured,         \* what the call of capture came to
    restored,         \* what SnapshotEngine.restore made of the snapshot
    heap2,            \* the objects of the value when it is captured again
    captured2,        \* what the second call of capture came to
    changes,          \* what SnapshotEngine.diff of the two snapshots returned
    _custom_serializers,    \* SnapshotEngine._custom_serializers, by type
    _custom_deserializers   \* SnapshotEngine._custom_deserializers, by type name

\* the state of the snapshot engine's calls
engine == <<heap, captured, restored, heap2, captured2, changes,
            _custom_serializers, _custom_deserializers>>

\* recorder.py: Recorder.replay
VARIABLES
    replayed          \* what the last call of replay came to

\* storage/json_file.py: the directory of a JsonFileStorage
VARIABLES
    disk              \* the session files, index.json, and the last call's outcome

\* the state outside the recorder object
aux == <<contexts, recorders, trace_calls, lock, pc, engine, replayed, disk>>

vars == <<current_session, event_stack, sessions, events, snapshots, storage,
          scopes, span_log, aux>>

\* ------------------------------------------------------------- events.py
\* uuid4 for a new event: a value no earlier event carries
NewEventId(evs) == Len(evs) + 1

NewSessionId(sess) == Len(sess) + 1

NewSnapshotId(snaps) == Len(snaps) + 1

\* A value a tool returned, by its type and its repr; None is no result.
NoResult == [type |-> "NoneType", v |-> "None"]

\* An exception, by its type name and its message; NoError is None.
NoError == [type |-> "NoneType", msg |-> ""]
AnError == [type |-> "ValueError", msg |-> ErrMsg]

\* A new event.  The last five fields are those of a ToolCallEvent, at their
\* defaults.
NewEvent(evs, etype) ==
    [id |-> NewEventId(evs), event_type |-> etype, trace_id |-> NoId,
     parent_id |-> NoId, status |-> RUNNING, ended |-> FALSE, error |-> "",
     tool_name |-> "", result |-> NoResult, result_type |-> "",
     error_message |-> "", error_type |-> ""]

\* complete that sets the status and leaves end_timestamp and duration_ms unset
Complete_StatusOnly(ev, status) == [ev EXCEPT !.status = status]

\* TraceEvent.complete
Complete(ev, status) == [ev EXCEPT !.ended = TRUE, !.status = status]

\* TraceEvent.fail
Fail(ev, msg) == Complete([ev EXCEPT !.error = msg], ERROR)

\* ToolCallEvent.set_result
set_result(ev, result) ==
    Complete([ev EXCEPT !.result = result, !.result_type = result.type], SUCCESS)

\* ToolCallEvent.set_error
set_error(ev, error) ==
    Fail([ev EXCEPT !.error_message = error.msg, !.error_type = error.type], error.msg)

NewSession(sess) ==
    [id |-> NewSessionId(sess), status |-> RUNNING, ended |-> FALSE,
     events |-> <<>>, snapshots |-> <<>>, root_event_id |-> NoId]

\* TraceSession.complete
SessionComplete(s, status) == [s EXCEPT !.ended = TRUE, !.status = status]

\* The recorder's state as one value, so that the methods compose.
State == [cur |-> current_session, stack |-> event_stack, sessions |-> sessions,
          events |-> events, snapshots |-> snapshots, storage |-> storage]

Commit(S) ==
    /\ current_session' = S.cur
    /\ event_stack' = S.stack
    /\ sessions' = S.sessions
    /\ events' = S.events
    /\ snapshots' = S.snapshots
    /\ storage' = S.storage

\* add_event that makes every parentless event the root
add_event_LastRoot(S, r, e) ==
    LET S1 == [S EXCEPT !.events[e].trace_id = S.sessions[r].id]
        ev == S1.events[e]
    IN [S1 EXCEPT !.sessions[r].events = Append(@, e),
                  !.sessions[r].root_event_id =
                      IF ev.parent_id = NoId THEN ev.id ELSE @]

\* TraceSession.add_event, on session reference r and event reference e
add_event(S, r, e) ==
    LET S1 == [S EXCEPT !.events[e].trace_id = S.sessions[r].id]
        ev == S1.events[e]
    IN [S1 EXCEPT !.sessions[r].events = Append(@, e),
                  !.sessions[r].root_event_id =
                      IF @ = NoId /\ ev.parent_id = NoId THEN ev.id ELSE @]

\* TraceSession.add_snapshot
add_snapshot(S, r, n) ==
    [S EXCEPT !.snapshots[n].trace_id = S.sessions[r].id,
              !.sessions[r].snapshots = Append(@, n)]

\* ------------------------------------------------------------- storage
\* session.model_dump(): the session with its events and snapshots by value
model_dump(S, r) ==
    LET s == S.sessions[r]
    IN [id |-> s.id, status |-> s.status, ended |-> s.ended,
        root_event_id |-> s.root_event_id,
        events |-> [i \in 1..Len(s.events) |-> S.events[s.events[i]]],
        snapshots |-> [i \in 1..Len(s.snapshots) |-> S.snapshots[s.snapshots[i]]]]

\* StorageBackend.save_session
save_session(S, r) == [S EXCEPT !.storage = Append(@, model_dump(S, r))]

\* ------------------------------------------------------------- recorder.py
\* end_session that leaves the span stack as it is
end_session_KeepStack(S, status) ==
    IF S.cur = None
    THEN S
    ELSE LET S1 == [S EXCEPT !.sessions[S.cur] = SessionComplete(@, status)]
             S2 == save_session(S1, S.cur)
         IN [S2 EXCEPT !.cur = None]

\* end_session that saves the session before completing it
end_session_SaveFirst(S, status) ==
    IF S.cur = None
    THEN S
    ELSE LET S1 == save_session(S, S.cur)
             S2 == [S1 EXCEPT !.sessions[S.cur] = SessionComplete(@, status)]
         IN [S2 EXCEPT !.cur = None, !.stack = <<>>]

\* Recorder.end_session
end_session(S, status) ==
    IF S.cur = None
    THEN S
    ELSE LET S1 == [S EXCEPT !.sessions[S.cur] = SessionComplete(@, status)]
             S2 == save_session(S1, S.cur)
         IN [S2 EXCEPT !.cur = None, !.stack = <<>>]

\* what Recorder.end_session returns
end_session_ret(S) == S.cur

\* start_session that replaces the active session without ending it
start_session_Drop(S) ==
    [S EXCEPT !.sessions = Append(@, NewSession(S.sessions)),
              !.cur = Len(S.sessions) + 1,
              !.stack = <<>>]

\* Recorder.start_session
start_session(S) ==
    LET S1 == IF S.cur # None THEN end_session(S, SUCCESS) ELSE S
    IN [S1 EXCEPT !.sessions = Append(@, NewSession(S1.sessions)),
                  !.cur = Len(S1.sessions) + 1,
                  !.stack = <<>>]

\* a parent rule that never looks at the stack
ParentOf_KeepOwn(S, e) == S.events[e].parent_id

\* the parent a new event gets: "if self._event_stack: parent_id = top.id"
ParentOf(S, e) ==
    IF S.stack # <<>> THEN S.events[Top(S.stack)].id ELSE S.events[e].parent_id

\* _record_event that records nothing when no session is active
_record_event_NoAutoStart(S, e) ==
    IF S.cur = None THEN S
    ELSE LET S2 == [S EXCEPT !.events[e].parent_id = ParentOf(S, e)]
         IN add_event(S2, S2.cur, e)

\* Recorder._record_event
_record_event(S, e) ==
    LET S1 == IF S.cur = None THEN start_session(S) ELSE S
        S2 == [S1 EXCEPT !.events[e].parent_id = ParentOf(S1, e)]
    IN add_event(S2, S2.cur, e)

\* Recorder._record_span_start
_record_span_start(S, e) ==
    LET S1 == IF S.cur = None THEN start_session(S) ELSE S
        S2 == [S1 EXCEPT !.events[e].parent_id = ParentOf(S1, e)]
        S3 == add_event(S2, S2.cur, e)
    IN [S3 EXCEPT !.stack = Append(@, e)]

\* the span's status handed on as it is, running included
FinalStatus_Raw(status) == status

\* the status handed to end_session by _record_span_end
FinalStatus(status) == IF status # RUNNING THEN status ELSE SUCCESS

\* "if self._event_stack and self._event_stack[-1].id == span.id"
IsTop(S, e) == S.stack # <<>> /\ S.events[Top(S.stack)].id = S.events[e].id

\* Recorder._record_span_end
_record_span_end(S, e) ==
    LET S1 == IF IsTop(S, e) THEN [S EXCEPT !.stack = Pop(@)] ELSE S
    IN IF S1.stack = <<>>
       THEN end_session(S1, FinalStatus(S1.events[e].status))
       ELSE S1

\* Recorder.capture_state, on the snapshot reference n the engine returned
capture_state(S, n) ==
    LET event_id == IF S.stack # <<>> THEN S.events[Top(S.stack)].id ELSE NoId
        trace_id == IF S.cur # None THEN S.sessions[S.cur].id ELSE NoId
        S1 == [S EXCEPT !.snapshots[n].event_id = event_id,
                        !.snapshots[n].trace_id = trace_id]
    IN IF S1.cur # None THEN add_snapshot(S1, S1.cur, n) ELSE S1

\* a scope that marks the failure without recording the message
OnBodyExit_NoMessage(ev, how) ==
    CASE how = "return" -> Complete(ev, SUCCESS)
      [] how = "raise" -> Complete(ev, ERROR)
      [] OTHER -> ev

\* SpanEvent.input_data etc. play no part in nesting; a span is its TraceEvent.
\* The status change a scope makes when its body ends:
\* "yield span; span.complete(SUCCESS)" / "except Exception as e: span.fail(str(e))"
OnBodyExit(ev, how) ==
    CASE how = "return" -> Complete(ev, SUCCESS)
      [] how = "raise" -> Fail(ev, ErrMsg)
      [] OTHER -> ev

\* every scope calling _record_span_end in "except Exception" only, no finally
CallsEnd_ExceptOnly(kind, how) == how # "cancel"

\* Does the scope call _record_span_end on this exit path?  Recorder.span calls
\* it in a finally block; the @trace wrappers call it at the end of the try
\* block and in "except Exception" only.
CallsEnd(kind, how) == kind = "span" \/ how # "cancel"

\* What the caller of the scope sees: the body's result, or the exception
\* re-raised by "raise" (the finally block raises nothing of its own).
Propagated(kind, how) == how

\* ToolCallEvent.set_result / set_error, as record_tool_call applies them
ToolOutcomes == {"result", "error", "none"}

OnToolCall(ev, outcome) ==
    CASE outcome = "result" -> set_result(ev, [type |-> "int", v |-> "3"])
      [] outcome = "error" -> set_error(ev, AnError)
      [] OTHER -> ev

\* record_tool_call with "if result:" in place of "if result is not None:"
ToolCallEvent_Truthy(evs, tool_name, result, error) ==
    LET event == [NewEvent(evs, "tool_call") EXCEPT !.tool_name = tool_name]
    IN IF result.v \notin {"None", "0", ""} THEN set_result(event, result)
       ELSE IF error # NoError THEN set_error(event, error)
       ELSE event

\* The event record_tool_call builds: ToolCallEvent(...), then set_result if
\* result is not None, else set_error if error is not None.
ToolCallEvent(evs, tool_name, result, error) ==
    LET event == [NewEvent(evs, "tool_call") EXCEPT !.tool_name = tool_name]
    IN IF result # NoResult THEN set_result(event, result)
       ELSE IF error # NoError THEN set_error(event, error)
       ELSE event

\* "if response: event.complete()" in record_llm_call
OnLLMCall(ev, has_response) == IF has_response THEN Complete(ev, SUCCESS) ELSE ev

\* ------------------------------------------------------------- the machine
\* The log entry of an event: the nesting depth of its thread when it was
\* opened, how its body ended, what its caller saw, how often
\* _record_span_end was called for it, and the session that call finalized
\* (None if it finalized none).
NewLog(depth) ==
    [depth |-> depth, how |-> "none", out |-> "none", ends |-> 0,
     finalized |-> None]

Objects == Len(sessions) + Len(events) + Len(snapshots)

\* one execution context, the main thread's, where _recorder_ctx has its
\* default, None
InitCtx ==
    /\ contexts = <<[kind |-> "main", recorder |-> None]>>
    /\ recorders = 0
    /\ trace_calls = <<>>

NoThread == "none"

\* a thread that is in no recorder method
IdlePc ==
    [op |-> "none", at |-> "idle", e |-> NoId, status |-> SUCCESS,
     session |-> None, event_id |-> NoId, trace_id |-> NoId, held |-> <<>>]

InitLock ==
    /\ lock = [owner |-> NoThread, count |-> 0]
    /\ pc = [t \in Threads |-> IdlePc]

\* JsonFileStorage.__init__ on a new directory: no session file, and
\* index.json written as the empty list; no call made yet
EmptyDisk == [files |-> {}, index |-> <<>>, calls |-> 0, last |-> [op |-> "none"]]

\* no call of capture made or under way
NotCaptured == [done |-> FALSE, raised |-> FALSE]

\* no call of restore made
NotRestored == [done |-> FALSE]

\* no call of diff made
NotDiffed == [done |-> FALSE]

\* no second value, no second capture, nothing restored, nothing diffed
NoSecondCapture ==
    /\ restored = NotRestored
    /\ heap2 = <<>>
    /\ captured2 = NotCaptured
    /\ changes = NotDiffed

\* SnapshotEngine.__init__: nothing registered
NothingRegistered ==
    /\ _custom_serializers = <<>>
    /\ _custom_deserializers = <<>>

\* no value at hand
InitSnapshotEngine ==
    /\ NothingRegistered
    /\ heap = <<>>
    /\ captured = NotCaptured
    /\ NoSecondCapture

\* replay not called
NotReplayed == [done |-> FALSE]

InitAux == InitCtx /\ InitLock /\ InitSnapshotEngine /\ replayed = NotReplayed /\ disk = EmptyDisk

InitRecorder ==
    /\ current_session = None
    /\ event_stack = <<>>
    /\ sessions = <<>>
    /\ events = <<>>
    /\ snapshots = <<>>
    /\ storage = <<>>
    /\ scopes = [t \in Threads |-> <<>>]
    /\ span_log = <<>>

Init == InitRecorder /\ InitAux

\* a recording call creates an event and may have to start a session
CanRecord == Objects + (IF current_session = None THEN 2 ELSE 1) <= MaxObjects

\* Recorder.start_session, called by any thread
StartSession ==
    /\ Objects < MaxObjects
    /\ Commit(start_session(State))
    /\ UNCHANGED <<scopes, span_log, aux>>

\* Recorder.end_session(status), called by any thread
EndSession(status) ==
    /\ Commit(end_session(State, status))
    /\ UNCHANGED <<scopes, span_log, aux>>

\* Recorder.record_tool_call
RecordToolCall(outcome) ==
    /\ CanRecord
    /\ LET e == Len(events) + 1
           ev == OnToolCall(NewEvent(events, "tool_call"), outcome)
           S0 == [State EXCEPT !.events = Append(@, ev)]
       IN /\ Commit(_record_event(S0, e))
          /\ span_log' = Append(span_log, NewLog(0))
    /\ UNCHANGED <<scopes, aux>>

\* Recorder.record_tool_call(tool_name, arguments, result, error)
RecordToolCallWith(tool_name, result, error) ==
    /\ CanRecord
    /\ LET e == Len(events) + 1
           ev == ToolCallEvent(events, tool_name, result, error)
           S0 == [State EXCEPT !.events = Append(@, ev)]
       IN /\ Commit(_record_event(S0, e))
          /\ span_log' = Append(span_log, NewLog(0))
    /\ UNCHANGED <<scopes, aux>>

\* Recorder.record_llm_call
RecordLLMCall(has_response) ==
    /\ CanRecord
    /\ LET e == Len(events) + 1
           ev == OnLLMCall(NewEvent(events, "llm_call"), has_response)
           S0 == [State EXCEPT !.events = Append(@, ev)]
       IN /\ Commit(_record_event(S0, e))
          /\ span_log' = Append(span_log, NewLog(0))
    /\ UNCHANGED <<scopes, aux>>

\* Recorder.capture_state
CaptureState ==
    /\ Objects < MaxObjects
    /\ LET n == Len(snapshots) + 1
           snap == [id |-> NewSnapshotId(snapshots), trace_id |-> NoId, event_id |-> NoId]
           S0 == [State EXCEPT !.snapshots = Append(@, snap)]
       IN Commit(capture_state(S0, n))
    /\ UNCHANGED <<scopes, span_log, aux>>

\* Entering a scope: "with recorder.span(...)" up to the yield, or a @trace
\* wrapper up to the call of the wrapped function.  Both create a SpanEvent and
\* call _record_span_start; which of the two the scope is shows only when its
\* body ends, and is chosen there.  A thread that is between the end of a
\* body and the scope's _record_span_end is inside the scope's exit code and
\* begins nothing there.
SpanEnter(t) ==
    /\ CanRecord
    /\ scopes[t] # <<>> => Top(scopes[t]).pc = "body"
    /\ LET e == Len(events) + 1
           S0 == [State EXCEPT !.events = Append(@, NewEvent(events, "span"))]
       IN /\ Commit(_record_span_start(S0, e))
          /\ scopes' = [scopes EXCEPT ![t] =
                            Append(@, [span |-> e, pc |-> "body", pending |-> "none"])]
          /\ span_log' = Append(span_log, NewLog(Len(scopes[t])))
    /\ UNCHANGED aux

\* The body of thread t's innermost scope, a scope of the given kind, ends; the
\* scope marks the span.  These statements run outside the lock.  A scope that
\* does not go on to _record_span_end has exited here; otherwise the body's
\* result or exception is pending until _record_span_end has run.
BodyExit(t, kind, how) ==
    /\ scopes[t] # <<>>
    /\ LET sc == Top(scopes[t])
       IN /\ sc.pc = "body"
          /\ events' = [events EXCEPT ![sc.span] = OnBodyExit(@, how)]
          /\ IF CallsEnd(kind, how)
             THEN /\ scopes' = [scopes EXCEPT ![t][Len(scopes[t])] =
                                    [sc EXCEPT !.pc = "end",
                                               !.pending = Propagated(kind, how)]]
                  /\ span_log' = [span_log EXCEPT ![sc.span].how = how]
             ELSE /\ scopes' = [scopes EXCEPT ![t] = Pop(@)]
                  /\ span_log' = [span_log EXCEPT
                                      ![sc.span].how = how,
                                      ![sc.span].out = Propagated(kind, how)]
    /\ UNCHANGED <<current_session, event_stack, sessions, snapshots, storage, aux>>

\* The scope calls _record_span_end and returns to its caller.
SpanExit(t) ==
    /\ scopes[t] # <<>>
    /\ LET sc == Top(scopes[t])
           S1 == _record_span_end(State, sc.span)
       IN /\ sc.pc = "end"
          /\ Commit(S1)
          /\ span_log' = [span_log EXCEPT
                              ![sc.span].ends = @ + 1,
                              ![sc.span].out = sc.pending,
                              ![sc.span].finalized =
                                  IF Len(S1.storage) > Len(storage)
                                  THEN current_session ELSE None]
          /\ scopes' = [scopes EXCEPT ![t] = Pop(@)]
    /\ UNCHANGED aux

Next ==
    \/ StartSession
    \/ \E status \in EndStatuses : EndSession(status)
    \/ \E outcome \in ToolOutcomes : RecordToolCall(outcome)
    \/ \E has_response \in BOOLEAN : RecordLLMCall(has_response)
    \/ CaptureState
    \/ \E t \in Threads : SpanEnter(t)
    \/ \E t \in Threads, kind \in ScopeKinds, how \in BodyOutcomes : BodyExit(t, kind, how)
    \/ \E t \in Threads : SpanExit(t)

Spec == Init /\ [][Next]_vars

\* ------------------------------------------------------------- event objects
\* Event objects in the hands of their callers: user code holding the span a
\* scope yielded, an adapter holding the event it recorded.  The methods of
\* events.py are called on them in any order and any number of times; the
\* recorder's own state plays no part.

MaxEventObjects == 2
EventTypes == {"span", "llm_call", "tool_call"}

\* LLMCallEvent.set_response
set_response(ev) == Complete(ev, SUCCESS)

RecorderIdle ==
    UNCHANGED <<current_session, event_stack, sessions, snapshots, storage,
                scopes, span_log, aux>>

\* SpanEvent(...), LLMCallEvent(...), ToolCallEvent(...)
CreateEvent(etype) ==
    /\ Len(events) < MaxEventObjects
    /\ events' = Append(events, NewEvent(events, etype))
    /\ RecorderIdle

\* event.complete(status), with the default or a terminal status
CallComplete(e, status) ==
    /\ events' = [events EXCEPT ![e] = Complete(@, status)]
    /\ RecorderIdle

\* event.fail(error)
CallFail(e) ==
    /\ events' = [events EXCEPT ![e] = Fail(@, ErrMsg)]
    /\ RecorderIdle

\* tool_event.set_result(result)
CallSetResult(e) ==
    /\ events[e].event_type = "tool_call"
    /\ events' = [events EXCEPT ![e] = set_result(@, [type |-> "int", v |-> "3"])]
    /\ RecorderIdle

\* tool_event.set_error(error)
CallSetError(e) ==
    /\ events[e].event_type = "tool_call"
    /\ events' = [events EXCEPT ![e] = set_error(@, AnError)]
    /\ RecorderIdle

\* llm_event.set_response(response)
CallSetResponse(e) ==
    /\ events[e].event_type = "llm_call"
    /\ events' = [events EXCEPT ![e] = set_response(@)]
    /\ RecorderIdle

\* The LangGraph adapter's failure path: inside "with recorder.span(...) as
\* span" it calls span.fail(str(e)) and re-raises; the exception then reaches
\* Recorder.span's own handler, which calls span.fail(str(e)) again.
AdapterFailThenReraise(e) ==
    /\ events[e].event_type = "span"
    /\ events' = [events EXCEPT ![e] = Fail(Fail(@, ErrMsg), ErrMsg)]
    /\ RecorderIdle

NextEvent ==
    \/ \E etype \in EventTypes : CreateEvent(etype)
    \/ \E e \in 1..Len(events), status \in Terminal : CallComplete(e, status)
    \/ \E e \in 1..Len(events) : CallFail(e)
    \/ \E e \in 1..Len(events) : CallSetResult(e)
    \/ \E e \in 1..Len(events) : CallSetError(e)
    \/ \E e \in 1..Len(events) : CallSetResponse(e)
    \/ \E e \in 1..Len(events) : AdapterFailThenReraise(e)

SpecEvent == Init /\ [][NextEvent]_vars

\* ------------------------------------------------------------- decorators.py
\* The current-recorder handle.  _recorder_ctx is a ContextVar with default
\* None: a value set in one execution context is seen in that context and in
\* contexts copied from it (an asyncio task copies its creator's context); a
\* new thread starts with an empty context, where the variable has its default.

MaxContexts == 3
MaxRecorders == 2
MaxTraceCalls == 2

\* get_current_recorder(), called in context c
get_current_recorder(c) == contexts[c].recorder

\* set_current_recorder(recorder), called in context c
set_current_recorder(ctxs, c, recorder) == [ctxs EXCEPT ![c].recorder = recorder]

RecorderUntouched ==
    UNCHANGED <<current_session, event_stack, sessions, events, snapshots,
                storage, scopes, span_log>>

\* Recorder(...) constructed in context c: __init__ ends with
\* set_current_recorder(self)
NewRecorder(c) ==
    /\ recorders < MaxRecorders
    /\ recorders' = recorders + 1
    /\ contexts' = set_current_recorder(contexts, c, recorders + 1)
    /\ UNCHANGED <<trace_calls, lock, pc, engine, replayed, disk>>
    /\ RecorderUntouched

\* code running in context c starts a thread
StartThread(c) ==
    /\ Len(contexts) < MaxContexts
    /\ contexts' = Append(contexts, [kind |-> "thread", recorder |-> None])
    /\ UNCHANGED <<recorders, trace_calls, lock, pc, engine, replayed, disk>>
    /\ RecorderUntouched

\* code running in context c creates an asyncio task
CreateTask(c) ==
    /\ Len(contexts) < MaxContexts
    /\ contexts' = Append(contexts, [kind |-> "task",
                                     recorder |-> get_current_recorder(c)])
    /\ UNCHANGED <<recorders, trace_calls, lock, pc, engine, replayed, disk>>
    /\ RecorderUntouched

\* a @trace-wrapped function is called in context c: the wrapper asks for the
\* current recorder and, given None, calls the function untraced
CallTraced(c) ==
    /\ Len(trace_calls) < MaxTraceCalls
    /\ trace_calls' = Append(trace_calls,
                             [ctx |-> c, recorder |-> get_current_recorder(c)])
    /\ UNCHANGED <<contexts, recorders, lock, pc, engine, replayed, disk>>
    /\ RecorderUntouched

NextCtx ==
    \/ \E c \in 1..Len(contexts) : NewRecorder(c)
    \/ \E c \in 1..Len(contexts) : StartThread(c)
    \/ \E c \in 1..Len(contexts) : CreateTask(c)
    \/ \E c \in 1..Len(contexts) : CallTraced(c)

SpecCtx == Init /\ [][NextCtx]_vars

\* ------------------------------------------- recorder.py: Recorder.trace
\* Recorder.trace(func) returns decorators.trace(func): the Recorder whose
\* method it is is not handed to the decorator.  The wrapper of a function
\* decorated with the trace method of Recorder self, called in context c,
\* records into the Recorder it gets from get_current_recorder().
sync_wrapper(self, c) == get_current_recorder(c)

\* a function decorated with self.trace is called in context c
CallDecorated(c, self) ==
    /\ Len(trace_calls) < MaxTraceCalls
    /\ self \in 1..recorders
    /\ trace_calls' = Append(trace_calls,
                             [ctx |-> c, recorder |-> sync_wrapper(self, c),
                              decorated_by |-> self])
    /\ UNCHANGED <<contexts, recorders, lock, pc, engine, replayed, disk>>
    /\ RecorderUntouched

NextOwn ==
    \/ \E c \in 1..Len(contexts) : NewRecorder(c)
    \/ \E c \in 1..Len(contexts) : StartThread(c)
    \/ \E c \in 1..Len(contexts) : CreateTask(c)
    \/ \E c \in 1..Len(contexts), self \in 1..MaxRecorders : CallDecorated(c, self)

SpecOwn == Init /\ [][NextOwn]_vars

\* ------------------------------------------------------------- the lock
\* The methods of recorder.py that change the recorder's state, statement by
\* statement.  Each runs inside "with self._lock": a thread waits at the
\* acquire while another thread owns the lock, runs its statements one at a
\* time while threads outside the lock run theirs, and releases on leaving the
\* block, by return or by exception.  A call the method makes to another
\* locked method of the same recorder re-enters the lock it already owns and
\* is taken as one statement.

MaxLockObjects == 3

LockObjectsLeft(n) == Objects + n <= MaxLockObjects

\* a lock that lets every thread in
CanAcquire_Always(t) == TRUE

\* threading.RLock: free, or owned by the asking thread
CanAcquire(t) == lock.owner \in {NoThread, t}

\* the part of the recorder's state the lock protects: the current-session
\* reference, the span stack, each session's record with its event and
\* snapshot sequences, and which sessions were saved
Protected(S) ==
    [cur |-> S.cur, stack |-> S.stack, sessions |-> S.sessions,
     saved |-> [i \in 1..Len(S.storage) |->
                   [id |-> S.storage[i].id, status |-> S.storage[i].status]]]

Held(S) ==
    [cur |-> S.cur, stack |-> S.stack, sessions |-> S.sessions,
     storage |-> S.storage]

\* the first statement of each method's locked block
First(op) ==
    CASE op = "_record_event" -> "autostart"
      [] op = "_record_span_start" -> "autostart"
      [] op = "_record_span_end" -> "pop"
      [] op = "start_session" -> "endprev"
      [] op = "end_session" -> "check"
      [] op = "capture_state" -> "read"

\* Recorder._record_event and Recorder._record_span_start, one statement
record_stmt(S, p) ==
    CASE p.at = "autostart" ->
            [S |-> IF S.cur = None THEN start_session(S) ELSE S,
             p |-> [p EXCEPT !.at = "parent"]]
      [] p.at = "parent" ->
            [S |-> [S EXCEPT !.events[p.e].parent_id = ParentOf(S, p.e)],
             p |-> [p EXCEPT !.at = "add"]]
      [] p.at = "add" ->
            IF S.cur = None
            THEN [S |-> S, p |-> [p EXCEPT !.at = "raise"]]
            ELSE [S |-> add_event(S, S.cur, p.e),
                  p |-> [p EXCEPT !.at = IF p.op = "_record_span_start"
                                         THEN "push" ELSE "release"]]
      [] p.at = "push" ->
            [S |-> [S EXCEPT !.stack = Append(@, p.e)],
             p |-> [p EXCEPT !.at = "release"]]

\* Recorder._record_span_end, one statement
span_end_stmt(S, p) ==
    CASE p.at = "pop" ->
            [S |-> IF IsTop(S, p.e) THEN [S EXCEPT !.stack = Pop(@)] ELSE S,
             p |-> [p EXCEPT !.at = "autoend"]]
      [] p.at = "autoend" ->
            [S |-> IF S.stack = <<>>
                   THEN end_session(S, FinalStatus(S.events[p.e].status))
                   ELSE S,
             p |-> [p EXCEPT !.at = "release"]]

\* Recorder.start_session, one statement
start_session_stmt(S, p) ==
    CASE p.at = "endprev" ->
            [S |-> IF S.cur # None THEN end_session(S, SUCCESS) ELSE S,
             p |-> [p EXCEPT !.at = "create"]]
      [] p.at = "create" ->
            [S |-> [S EXCEPT !.sessions = Append(@, NewSession(S.sessions)),
                             !.cur = Len(S.sessions) + 1],
             p |-> [p EXCEPT !.at = "reset"]]
      [] p.at = "reset" ->
            [S |-> [S EXCEPT !.stack = <<>>],
             p |-> [p EXCEPT !.at = "release"]]

\* Recorder.end_session, one statement
end_session_stmt(S, p) ==
    CASE p.at = "check" ->
            IF S.cur = None
            THEN [S |-> S, p |-> [p EXCEPT !.at = "release"]]
            ELSE [S |-> S, p |-> [p EXCEPT !.at = "complete", !.session = S.cur]]
      [] p.at = "complete" ->
            [S |-> [S EXCEPT !.sessions[p.session] = SessionComplete(@, p.status)],
             p |-> [p EXCEPT !.at = "save"]]
      [] p.at = "save" ->
            [S |-> save_session(S, p.session),
             p |-> [p EXCEPT !.at = "clear_session"]]
      [] p.at = "clear_session" ->
            [S |-> [S EXCEPT !.cur = None],
             p |-> [p EXCEPT !.at = "clear_stack"]]
      [] p.at = "clear_stack" ->
            [S |-> [S EXCEPT !.stack = <<>>],
             p |-> [p EXCEPT !.at = "release"]]

\* Recorder.capture_state, one statement
capture_state_stmt(S, p) ==
    CASE p.at = "read" ->
            [S |-> S,
             p |-> [p EXCEPT !.at = "capture",
                             !.event_id = IF S.stack # <<>>
                                          THEN S.events[Top(S.stack)].id ELSE NoId,
                             !.trace_id = IF S.cur # None
                                          THEN S.sessions[S.cur].id ELSE NoId]]
      [] p.at = "capture" ->
            [S |-> [S EXCEPT !.snapshots =
                        Append(@, [id |-> NewSnapshotId(S.snapshots),
                                   trace_id |-> p.trace_id,
                                   event_id |-> p.event_id])],
             p |-> [p EXCEPT !.at = "add", !.e = Len(S.snapshots) + 1]]
      [] p.at = "add" ->
            [S |-> IF S.cur # None THEN add_snapshot(S, S.cur, p.e) ELSE S,
             p |-> [p EXCEPT !.at = "release"]]

stmt(S, p) ==
    CASE p.op \in {"_record_event", "_record_span_start"} -> record_stmt(S, p)
      [] p.op = "_record_span_end" -> span_end_stmt(S, p)
      [] p.op = "start_session" -> start_session_stmt(S, p)
      [] p.op = "end_session" -> end_session_stmt(S, p)
      [] p.op = "capture_state" -> capture_state_stmt(S, p)

\* the method as one step, as the recorder model above takes it
Atomic(S, p) ==
    CASE p.op = "_record_event" -> _record_event(S, p.e)
      [] p.op = "_record_span_start" -> _record_span_start(S, p.e)
      [] p.op = "_record_span_end" -> _record_span_end(S, p.e)
      [] p.op = "start_session" -> start_session(S)
      [] p.op = "end_session" -> end_session(S, p.status)
      [] p.op = "capture_state" -> capture_state(S, p.e)

\* the statement about to run creates a session or a snapshot
Creates(S, p) ==
    \/ p.at = "autostart" /\ S.cur = None
    \/ p.at = "create"
    \/ p.at = "capture"

LockIdle == UNCHANGED <<contexts, recorders, trace_calls, span_log, engine, replayed, disk>>

Enter(t, op, e, status) ==
    pc' = [pc EXCEPT ![t] = [IdlePc EXCEPT !.op = op, !.at = "acquire",
                                           !.e = e, !.status = status]]

\* record_tool_call up to its call of _record_event
CallRecordEvent(t) ==
    /\ pc[t].at = "idle"
    /\ LockObjectsLeft(IF current_session = None THEN 2 ELSE 1)
    /\ events' = Append(events, NewEvent(events, "tool_call"))
    /\ Enter(t, "_record_event", Len(events) + 1, SUCCESS)
    /\ UNCHANGED <<current_session, event_stack, sessions, snapshots, storage,
                   scopes, lock>>
    /\ LockIdle

\* Recorder.span up to its call of _record_span_start
CallSpanStart(t) ==
    /\ pc[t].at = "idle"
    /\ LockObjectsLeft(IF current_session = None THEN 2 ELSE 1)
    /\ events' = Append(events, NewEvent(events, "span"))
    /\ Enter(t, "_record_span_start", Len(events) + 1, SUCCESS)
    /\ UNCHANGED <<current_session, event_stack, sessions, snapshots, storage,
                   scopes, lock>>
    /\ LockIdle

\* Recorder.span from the return of its body to its call of _record_span_end
CallSpanEnd(t) ==
    /\ pc[t].at = "idle"
    /\ scopes[t] # <<>>
    /\ events' = [events EXCEPT ![Top(scopes[t]).span] = Complete(@, SUCCESS)]
    /\ Enter(t, "_record_span_end", Top(scopes[t]).span, SUCCESS)
    /\ UNCHANGED <<current_session, event_stack, sessions, snapshots, storage,
                   scopes, lock>>
    /\ LockIdle

CallStartSession(t) ==
    /\ pc[t].at = "idle"
    /\ LockObjectsLeft(1)
    /\ Enter(t, "start_session", NoId, SUCCESS)
    /\ UNCHANGED <<current_session, event_stack, sessions, events, snapshots,
                   storage, scopes, lock>>
    /\ LockIdle

CallEndSession(t, status) ==
    /\ pc[t].at = "idle"
    /\ Enter(t, "end_session", NoId, status)
    /\ UNCHANGED <<current_session, event_stack, sessions, events, snapshots,
                   storage, scopes, lock>>
    /\ LockIdle

CallCaptureState(t) ==
    /\ pc[t].at = "idle"
    /\ LockObjectsLeft(1)
    /\ Enter(t, "capture_state", NoId, SUCCESS)
    /\ UNCHANGED <<current_session, event_stack, sessions, events, snapshots,
                   storage, scopes, lock>>
    /\ LockIdle

\* "with self._lock:" entered
Acquire(t) ==
    /\ pc[t].at = "acquire"
    /\ CanAcquire(t)
    /\ lock' = [owner |-> t, count |-> lock.count + 1]
    /\ pc' = [pc EXCEPT ![t].at = First(pc[t].op), ![t].held = Held(State)]
    /\ UNCHANGED <<current_session, event_stack, sessions, events, snapshots,
                   storage, scopes>>
    /\ LockIdle

\* one statement of the locked block
Statement(t) ==
    /\ pc[t].at \notin {"idle", "read_id", "AttributeError",
                       "acquire", "release", "raise"}
    /\ Creates(State, pc[t]) => LockObjectsLeft(1)
    /\ LET r == stmt(State, pc[t])
       IN /\ Commit(r.S)
          /\ pc' = [pc EXCEPT ![t] = r.p]
    /\ UNCHANGED <<scopes, lock>>
    /\ LockIdle

\* "with self._lock:" left, by the end of the block, a return or an exception
Release(t) ==
    /\ pc[t].at \in {"release", "raise"}
    /\ lock' = IF lock.count <= 1 THEN [owner |-> NoThread, count |-> 0]
               ELSE [lock EXCEPT !.count = @ - 1]
    /\ scopes' = [scopes EXCEPT ![t] =
                     CASE pc[t].op = "_record_span_start" /\ pc[t].at = "release" ->
                              Append(@, [span |-> pc[t].e, pc |-> "body",
                                         pending |-> "none"])
                       [] pc[t].op = "_record_span_end" -> Pop(@)
                       [] OTHER -> @]
    /\ pc' = [pc EXCEPT ![t] = IdlePc]
    /\ UNCHANGED <<current_session, event_stack, sessions, events, snapshots,
                   storage>>
    /\ LockIdle

NextLock ==
    \/ \E t \in Threads : CallRecordEvent(t)
    \/ \E t \in Threads : CallSpanStart(t)
    \/ \E t \in Threads : CallSpanEnd(t)
    \/ \E t \in Threads : CallStartSession(t)
    \/ \E t \in Threads, status \in EndStatuses : CallEndSession(t, status)
    \/ \E t \in Threads : CallCaptureState(t)
    \/ \E t \in Threads : Acquire(t)
    \/ \E t \in Threads : Statement(t)
    \/ \E t \in Threads : Release(t)

SpecLock == Init /\ [][NextLock]_vars

\* ------------------------------------ recorder.py: reads outside the lock
\* Recorder.span, record_llm_call and record_tool_call build their event
\* before they take the lock, with
\*     trace_id=self._current_session.id if self._current_session else ""
\* which reads self._current_session twice: once for the test and, when the
\* test found a session, once more for ".id".  Other threads run between the
\* two reads.

Callers == {"span", "record_llm_call", "record_tool_call"}

\* the event the caller constructs
EventTypeOf(caller) ==
    CASE caller = "span" -> "span"
      [] caller = "record_llm_call" -> "llm_call"
      [] caller = "record_tool_call" -> "tool_call"

\* the locked method the caller goes on to
LockedMethodOf(caller) ==
    IF caller = "span" THEN "_record_span_start" ELSE "_record_event"

\* the event is constructed and the locked method is called
ConstructAndCall(t, caller) ==
    /\ events' = Append(events, NewEvent(events, EventTypeOf(caller)))
    /\ Enter(t, LockedMethodOf(caller), Len(events) + 1, SUCCESS)

\* "... if self._current_session else ...": the test.  Without a session the
\* trace_id is "" and the event is constructed at once.
TestSession(t, caller) ==
    /\ pc[t].at = "idle"
    /\ LockObjectsLeft(IF current_session = None THEN 2 ELSE 1)
    /\ IF current_session = None
       THEN ConstructAndCall(t, caller)
       ELSE /\ pc' = [pc EXCEPT ![t] = [IdlePc EXCEPT !.op = caller, !.at = "read_id"]]
            /\ UNCHANGED events
    /\ UNCHANGED <<current_session, event_stack, sessions, snapshots, storage,
                   scopes, lock>>
    /\ LockIdle

\* "self._current_session.id": the second read.  None has no attribute id.
ReadId(t) ==
    /\ pc[t].at = "read_id"
    /\ IF current_session = None
       THEN /\ pc' = [pc EXCEPT ![t].at = "AttributeError"]
            /\ UNCHANGED events
       ELSE /\ LockObjectsLeft(1)
            /\ ConstructAndCall(t, pc[t].op)

ReadSessionId(t) ==
    /\ ReadId(t)
    /\ UNCHANGED <<current_session, event_stack, sessions, snapshots, storage,
                   scopes, lock>>
    /\ LockIdle

NextRead ==
    \/ \E t \in Threads, caller \in Callers : TestSession(t, caller)
    \/ \E t \in Threads : ReadSessionId(t)
    \/ \E t \in Threads : CallStartSession(t)
    \/ \E t \in Threads, status \in EndStatuses : CallEndSession(t, status)
    \/ \E t \in Threads : Acquire(t)
    \/ \E t \in Threads : Statement(t)
    \/ \E t \in Threads : Release(t)

SpecRead == Init /\ [][NextRead]_vars

\* ------------------------------------------------------------- snapshot.py
\* The value handed to capture is a graph of objects: heap[n] is object n and
\* containers hold references, so that a value can contain itself.  Object 1
\* is the value itself.  An object is described by what _serialize_state asks
\* of it: which isinstance tests it passes, its items, and which of the calls
\* made on it (the registered serializer, model_dump, pickle.dumps, str) fail.

MaxNodes == 3

\* _serialize_state(..., max_depth: int = 10)
max_depth == 10

NodeIds == 1..MaxNodes

\* A key of a dict or of __dict__: its type, what str(key) gives, and whether
\* str(key) raises.
NoKey == [name |-> "", type |-> "str", str_ok |-> TRUE]
StrKey == [name |-> "a", type |-> "str", str_ok |-> TRUE]
\* the int 1
IntKey == [name |-> "1", type |-> "int", str_ok |-> TRUE]
\* a key whose __str__ raises
BadKey == [name |-> "k", type |-> "K", str_ok |-> FALSE]
PublicAttr == [name |-> "x", type |-> "str", str_ok |-> TRUE]
PrivateAttr == [name |-> "_p", type |-> "str", str_ok |-> TRUE]

\* str(key), the key an entry is stored under
Str(key) == [name |-> key.name, type |-> "str"]

\* key.startswith("_")
StartsWithUnderscore(key) == key.name = "_p"

NoneValue ==
    [k |-> "none", type |-> "NoneType", base |-> "none", v |-> "None", items |-> <<>>,
     module |-> "builtins", dump_ok |-> TRUE, has_dict |-> FALSE,
     picklable |-> TRUE, str_ok |-> TRUE]

Primitive(type, v) == [NoneValue EXCEPT !.k = "prim", !.type = type, !.v = v]

\* an instance of list or tuple (base) or of a subclass of one of them: type
\* is type(state).__name__
SeqValue(base, type, refs) ==
    [NoneValue EXCEPT !.k = "list", !.type = type, !.base = base,
                      !.items = [i \in 1..Len(refs) |-> [key |-> NoKey, val |-> refs[i]]]]

ListValue(refs) == SeqValue("list", "list", refs)

TupleValue(refs) == SeqValue("tuple", "tuple", refs)

DictValue(items) == [NoneValue EXCEPT !.k = "dict", !.type = "dict", !.items = items]

\* an instance of a pydantic BaseModel subclass
ModelValue(dump_ok) ==
    [NoneValue EXCEPT !.k = "model", !.type = "M", !.module = "m",
                      !.dump_ok = dump_ok, !.has_dict = TRUE]

\* an instance of class type of module module
InstanceOf(module, type, has_dict, items, picklable, str_ok) ==
    [NoneValue EXCEPT !.k = "object", !.type = type, !.module = module,
                      !.items = items, !.has_dict = has_dict,
                      !.picklable = picklable, !.str_ok = str_ok]

\* an instance of another class
ObjectValue(has_dict, items, picklable, str_ok) ==
    InstanceOf("m", "Obj", has_dict, items, picklable, str_ok)

\* how the last two strategies go: pickled, rendered as a string, or neither
Fallbacks == {<<TRUE, TRUE>>, <<FALSE, TRUE>>, <<FALSE, FALSE>>}

ChildSeqs ==
    {<<>>} \cup {<<c>> : c \in NodeIds} \cup {<<c, d>> : c, d \in NodeIds}

Values ==
    {NoneValue, Primitive("int", "1"), Primitive("str", "a")}
    \cup {ListValue(refs) : refs \in ChildSeqs}
    \cup {TupleValue(<<>>)}
    \cup {TupleValue(<<c>>) : c \in NodeIds}
    \cup {SeqValue("list", "MyList", <<c>>) : c \in NodeIds}
    \cup {DictValue(<<>>)}
    \cup {DictValue(<<[key |-> key, val |-> c]>>) :
             key \in {StrKey, IntKey, BadKey}, c \in NodeIds}
    \cup {ModelValue(ok) : ok \in BOOLEAN}
    \cup {ObjectValue(TRUE, <<>>, TRUE, TRUE)}
    \cup {ObjectValue(TRUE, <<[key |-> PublicAttr, val |-> c]>>, f[1], f[2]) :
             c \in NodeIds, f \in Fallbacks}
    \cup {ObjectValue(TRUE, <<[key |-> PrivateAttr, val |-> c]>>, TRUE, TRUE) :
             c \in NodeIds}
    \cup {ObjectValue(FALSE, <<>>, f[1], f[2]) : f \in Fallbacks}

\* The values drawn: a two-item list has an object later in the heap as its
\* second item, so a value contains itself through first items only and the
\* serialized tree of a value that contains itself stays small.
CyclesThroughFirstItems(h) ==
    \A n \in NodeIds : Len(h[n].items) = 2 => h[n].items[2].val > n

\* what a call of _serialize_state comes to: it returned (tree, restorable) or
\* it raised; either way, warnings are the entries the call appended to the
\* warnings list, in order
Returned(tree, restorable, warnings) ==
    [raised |-> FALSE, tree |-> tree, restorable |-> restorable,
     warnings |-> warnings]

Raised(warnings) ==
    [raised |-> TRUE, tree |-> [_raised |-> TRUE], restorable |-> FALSE,
     warnings |-> warnings]

\* an entry of the warnings list, f"{path}: {what}"
Warning(path, what) == [path |-> path, what |-> what]

\* f"{path}[{i}]" for a list or tuple, f"{path}.{key}" for a dict or __dict__
ChildPath(state, path, i) ==
    IF state.k = "list" THEN path \o "[" \o ToString(i - 1) \o "]"
    ELSE path \o "." \o state.items[i].key.name

\* The class of an object: its module and its __name__.
TypeOf(state) == <<state.module, state.type>>

\* for type_, serializer in self._custom_serializers.items(): if
\* isinstance(state, type_): the entries of the registry that state is an
\* instance of (no class drawn derives from another, and the registry holds
\* one entry a type)
Registered(state) ==
    SelectSeq(_custom_serializers, LAMBDA entry : entry.type = TypeOf(state))

\* the serialized items of a list, without the keys of the loop
Trees(items) == [i \in 1..Len(items) |-> items[i].tree]

RECURSIVE _serialize_state(_, _, _, _)
RECURSIVE serialize_items(_, _, _, _, _)

\* the loops with a flag that stays true whatever the items are
RECURSIVE serialize_items_FlagKept(_, _, _, _, _)
serialize_items_FlagKept(h, state, i, path, depth) ==
    IF i > Len(state.items)
    THEN [raised |-> FALSE, trees |-> <<>>, restorable |-> TRUE, warnings |-> <<>>]
    ELSE LET item == state.items[i]
             r == _serialize_state(h, item.val, ChildPath(state, path, i), depth - 1)
             rest == serialize_items_FlagKept(h, state, i + 1, path, depth)
         IN IF state.k = "object" /\ StartsWithUnderscore(item.key)
            THEN rest
            ELSE IF ~item.key.str_ok
            THEN [raised |-> TRUE, trees |-> <<>>, restorable |-> FALSE,
                  warnings |-> <<>>]
            ELSE IF r.raised
            THEN [raised |-> TRUE, trees |-> <<>>, restorable |-> FALSE,
                  warnings |-> r.warnings]
            ELSE IF rest.raised
            THEN [rest EXCEPT !.warnings = r.warnings \o @]
            ELSE [raised |-> FALSE,
                  trees |-> <<[key |-> Str(item.key), tree |-> r.tree]>> \o rest.trees,
                  restorable |-> TRUE,
                  warnings |-> r.warnings \o rest.warnings]

\* The loops over a list's items, a dict's items and an object's __dict__: the
\* items from the i-th on, in order.  An exception in an item ends the loop.
serialize_items(h, state, i, path, depth) ==
    IF i > Len(state.items)
    THEN [raised |-> FALSE, trees |-> <<>>, restorable |-> TRUE, warnings |-> <<>>]
    ELSE LET item == state.items[i]
             r == _serialize_state(h, item.val, ChildPath(state, path, i), depth - 1)
             rest == serialize_items(h, state, i + 1, path, depth)
         IN IF state.k = "object" /\ StartsWithUnderscore(item.key)
            THEN rest
            ELSE IF ~item.key.str_ok
            THEN [raised |-> TRUE, trees |-> <<>>, restorable |-> FALSE,
                  warnings |-> <<>>]
            ELSE IF r.raised
            THEN [raised |-> TRUE, trees |-> <<>>, restorable |-> FALSE,
                  warnings |-> r.warnings]
            ELSE IF rest.raised
            THEN [rest EXCEPT !.warnings = r.warnings \o @]
            ELSE [raised |-> FALSE,
                  trees |-> <<[key |-> Str(item.key), tree |-> r.tree]>> \o rest.trees,
                  restorable |-> r.restorable /\ rest.restorable,
                  warnings |-> r.warnings \o rest.warnings]

\* SnapshotEngine._serialize_state on object n of heap h
_serialize_state(h, n, path, depth) ==
    LET state == h[n]
        \* registered serializer, if the object's type has one
        custom == Registered(state)
        w1 == IF custom # <<>> /\ ~custom[1].ok
              THEN <<Warning(path, "custom serializer failed")>>
              ELSE <<>>
        \* BaseModel: model_dump
        w2 == IF state.k = "model" /\ ~state.dump_ok
              THEN Append(w1, Warning(path, "Pydantic serialization failed"))
              ELSE w1
        \* the loop over the items of a list or a dict, or over __dict__ inside
        \* its try
        items == serialize_items(h, state, 1, path, depth)
        w3 == IF ~state.has_dict THEN w2
              ELSE Append(w2 \o items.warnings, Warning(path, "dict serialization failed"))
        \* pickle fallback
        w4 == Append(w3, Warning(path, "pickle fallback failed"))
    IN IF depth <= 0
       THEN Returned([_error |-> "max_depth_reached", _path |-> path], FALSE,
                     <<Warning(path, "max depth reached")>>)
       ELSE IF custom # <<>> /\ custom[1].ok
       THEN Returned([_custom |-> custom[1].serializer, _custom_type |-> custom[1].name],
                     TRUE, <<>>)
       ELSE IF state.k = "none"
       THEN Returned([_value |-> [scalar |-> "None"], _type |-> "NoneType"], TRUE, w1)
       ELSE IF state.k = "prim"
       THEN Returned([_value |-> [scalar |-> state.v], _type |-> state.type], TRUE, w1)
       ELSE IF state.k = "list"
       THEN IF items.raised THEN Raised(w1 \o items.warnings)
            ELSE Returned([_value |-> [list |-> Trees(items.trees)], _type |-> state.type],
                          items.restorable, w1 \o items.warnings)
       ELSE IF state.k = "dict"
       THEN IF items.raised THEN Raised(w1 \o items.warnings)
            ELSE Returned([_value |-> [dict |-> items.trees], _type |-> "dict"],
                          items.restorable, w1 \o items.warnings)
       ELSE IF state.k = "model" /\ state.dump_ok
       THEN Returned([_value |-> [dump |-> "fields"], _type |-> state.type,
                      _pydantic |-> TRUE, _module |-> state.module], TRUE, w1)
       ELSE IF state.has_dict /\ ~items.raised
       THEN Returned([_value |-> [dict |-> items.trees], _type |-> state.type,
                      _module |-> state.module], items.restorable, w2 \o items.warnings)
       ELSE IF state.picklable
       THEN Returned([_pickled |-> "base64", _type |-> state.type], TRUE, w3)
       ELSE IF state.str_ok
       THEN Returned([_str |-> "str", _type |-> state.type, _unserializable |-> TRUE],
                     FALSE, w4)
       ELSE Raised(w4)

\* SnapshotEngine.capture of the value whose objects are h
capture(h) ==
    LET r == _serialize_state(h, 1, "root", max_depth)
    IN IF r.raised THEN [done |-> TRUE, raised |-> TRUE]
       ELSE [done |-> TRUE, raised |-> FALSE,
             snapshot |-> [state |-> r.tree, state_type |-> h[1].type,
                           restorable |-> r.restorable,
                           serialization_warnings |-> r.warnings]]

InitCapture ==
    /\ InitRecorder
    /\ InitCtx
    /\ InitLock
    /\ replayed = NotReplayed
    /\ disk = EmptyDisk
    /\ NothingRegistered
    /\ heap \in {h \in [NodeIds -> Values] : CyclesThroughFirstItems(h)}
    /\ captured = NotCaptured
    /\ NoSecondCapture

\* engine.capture(state, trace_id, event_id)
Capture ==
    /\ ~captured.done
    /\ captured' = capture(heap)
    /\ UNCHANGED <<current_session, event_stack, sessions, events, snapshots,
                   storage, scopes, span_log, contexts, recorders, trace_calls,
                   lock, pc, replayed, disk, heap, restored, heap2, captured2, changes,
                   _custom_serializers, _custom_deserializers>>

\* ------------------------------------------------- snapshot.py: restore
\* A Python value as restore returns it: its type, its scalar value, and the
\* items of a list, a tuple or a dict (key, val).  The items of a list carry
\* the key of no dict.
Py(type, v, items) == [py |-> type, v |-> v, items |-> items]

\* a dict of the serialized form that was handed back as it is
Raw(tree) == [py |-> "dict", v |-> "serialized", items |-> <<>>, tree |-> tree]

\* the key of an item of a list or a tuple
NoPyKey == [name |-> "", type |-> "str"]

\* the entries of self._custom_deserializers under the name custom_type
Deserializers(custom_type) ==
    SelectSeq(_custom_deserializers, LAMBDA entry : entry.name = custom_type)

\* self._custom_deserializers[custom_type]
Deserializer(custom_type) == Deserializers(custom_type)[1].deserializer

RECURSIVE _deserialize_state(_)

\* [self._deserialize_state(item, "unknown") for item in value]
deserialize_list(trees) ==
    [i \in 1..Len(trees) |-> [key |-> NoPyKey, val |-> _deserialize_state(trees[i])]]

\* {key: self._deserialize_state(item, "unknown") for key, item in value.items()}
deserialize_dict(items) ==
    [i \in 1..Len(items) |->
        [key |-> items[i].key, val |-> _deserialize_state(items[i].tree)]]

\* the last dict branch: an item is deserialized only if it is a dict with a
\* "_value" key, otherwise it is handed back as it is
deserialize_attrs(items) ==
    [i \in 1..Len(items) |->
        [key |-> items[i].key,
         val |-> IF "_value" \in DOMAIN items[i].tree
                 THEN _deserialize_state(items[i].tree)
                 ELSE Raw(items[i].tree)]]

\* SnapshotEngine._deserialize_state
_deserialize_state(data) ==
    LET has(f) == f \in DOMAIN data
        stored_type == IF has("_type") THEN data._type ELSE "unknown"
    IN IF has("_custom_type") /\ Deserializers(data._custom_type) # <<>>
       THEN Py(data._custom_type, Deserializer(data._custom_type), <<>>)
       ELSE IF has("_pickled")
       THEN Py(stored_type, "unpickled", <<>>)
       ELSE IF has("_unserializable")
       THEN Py("str", data._str, <<>>)
       ELSE IF ~has("_value")
       \* data.get("_value") is None and the type is none of the known ones
       THEN Py("NoneType", "None", <<>>)
       ELSE IF stored_type = "NoneType"
       THEN Py("NoneType", "None", <<>>)
       ELSE IF stored_type \in {"bool", "int", "float", "str"}
       THEN Py(stored_type, data._value.scalar, <<>>)
       ELSE IF stored_type \in {"list", "tuple"}
       THEN Py(stored_type, "", deserialize_list(data._value.list))
       ELSE IF stored_type = "dict"
       THEN Py("dict", "", deserialize_dict(data._value.dict))
       ELSE IF has("_pydantic")
       THEN Py("dict", data._value.dump, <<>>)
       ELSE IF "dict" \in DOMAIN data._value
       THEN Py("dict", "", deserialize_attrs(data._value.dict))
       \* return value: the list of a list or tuple subclass, as serialized
       ELSE IF "list" \in DOMAIN data._value
       THEN Py("list", "",
               [i \in 1..Len(data._value.list) |->
                   [key |-> NoPyKey, val |-> Raw(data._value.list[i])]])
       ELSE Py(stored_type, data._value.scalar, <<>>)

\* SnapshotEngine.restore(snapshot) with no target type
restore(snapshot) == [done |-> TRUE, value |-> _deserialize_state(snapshot.state)]

\* engine.restore(snapshot) for the snapshot that capture returned
Restore ==
    /\ captured.done
    /\ ~captured.raised
    /\ ~restored.done
    /\ restored' = restore(captured.snapshot)
    /\ UNCHANGED <<current_session, event_stack, sessions, events, snapshots,
                   storage, scopes, span_log, contexts, recorders, trace_calls,
                   lock, pc, replayed, disk, heap, captured, heap2, captured2, changes,
                   _custom_serializers, _custom_deserializers>>

NextSnapshot == Capture \/ Restore

SpecSnapshot == InitCapture /\ [][NextSnapshot]_vars

\* ------------------------------------- snapshot.py: registered serializers
\* the (serializer, deserializer) pairs a caller can register
MaxSerializers == 2

\* Two classes named Point, of modules a and b.
PointA == <<"a", "Point">>
PointB == <<"b", "Point">>

\* type_.__name__
__name__(type_) == type_[2]

\* d[key] = entry for an insertion-ordered dict d kept as a sequence of
\* entries that hold their key in the given field: an entry under key is
\* replaced where it stands, a new key goes to the end
SetItem(d, field, key, entry) ==
    IF \E i \in 1..Len(d) : d[i][field] = key
    THEN [i \in 1..Len(d) |-> IF d[i][field] = key THEN entry ELSE d[i]]
    ELSE Append(d, entry)

\* SnapshotEngine.register_serializer(type_, serializer, deserializer), the
\* two functions being those of pair r; ok: the serializer does not raise
register_serializer(type_, r, ok) ==
    /\ _custom_serializers' =
           SetItem(_custom_serializers, "type", type_,
                   [type |-> type_, name |-> __name__(type_), ok |-> ok,
                    serializer |-> ToString(r)])
    /\ _custom_deserializers' =
           SetItem(_custom_deserializers, "name", __name__(type_),
                   [name |-> __name__(type_), deserializer |-> ToString(r)])

\* the pairs registered now
InUse ==
    {_custom_serializers[i].serializer : i \in 1..Len(_custom_serializers)}
    \cup {_custom_deserializers[i].deserializer : i \in 1..Len(_custom_deserializers)}

\* engine.register_serializer(type_, serializer, deserializer) with a pair of
\* functions not registered yet, before the value is captured
Register(type_, r, ok) ==
    /\ ~captured.done
    /\ ToString(r) \notin InUse
    /\ register_serializer(type_, r, ok)
    /\ UNCHANGED <<current_session, event_stack, sessions, events, snapshots,
                   storage, scopes, span_log, contexts, recorders, trace_calls,
                   lock, pc, replayed, disk, heap, captured, restored, heap2, captured2, changes>>

\* the values captured: instances of the two Point classes and of a class
\* nobody registers, and a list of one item
CustomValues ==
    {InstanceOf(type_[1], type_[2], TRUE, <<>>, TRUE, TRUE) : type_ \in {PointA, PointB}}
    \cup {ObjectValue(TRUE, <<>>, TRUE, TRUE), ListValue(<<MaxNodes>>)}

InitCustom ==
    /\ InitRecorder
    /\ InitCtx
    /\ InitLock
    /\ replayed = NotReplayed
    /\ disk = EmptyDisk
    /\ NothingRegistered
    /\ heap \in [NodeIds -> CustomValues]
    /\ captured = NotCaptured
    /\ NoSecondCapture

NextCustom ==
    \/ \E type_ \in {PointA, PointB}, r \in 1..MaxSerializers, ok \in BOOLEAN :
          Register(type_, r, ok)
    \/ Capture
    \/ Restore

SpecCustom == InitCustom /\ [][NextCustom]_vars

\* ---------------------------------------------------- snapshot.py: diff
\* The state is captured, one of its objects changes, and it is captured
\* again: heap and heap2.  The objects of a state refer to later objects only.
MaxDiffNodes == 4

DiffNodeIds == 1..MaxDiffNodes

ItemsKey == [name |-> "items", type |-> "str", str_ok |-> TRUE]

\* the scalars an object of the state can be
DiffLeaves == {Primitive("int", "1"), Primitive("int", "2"), Primitive("str", "a")}

\* what object n of the state can be
DiffValues(n) ==
    DiffLeaves
    \cup {ListValue(<<c>>) : c \in (n + 1)..MaxDiffNodes}
    \cup {ListValue(<<c, d>>) : c \in (n + 1)..MaxDiffNodes, d \in (n + 2)..MaxDiffNodes}
    \cup {DictValue(<<[key |-> key, val |-> c]>>) :
             key \in {StrKey, ItemsKey}, c \in (n + 1)..MaxDiffNodes}

\* the states whose objects from the n-th on are given
RECURSIVE DiffHeapsFrom(_)
DiffHeapsFrom(n) ==
    IF n > MaxDiffNodes THEN {<<>>}
    ELSE {<<v>> \o rest : v \in DiffValues(n), rest \in DiffHeapsFrom(n + 1)}

DiffHeaps == DiffHeapsFrom(1)

\* value.get("_type") for a dict
TypeName(value) == IF "_type" \in DOMAIN value THEN value._type ELSE "None"

\* value.get("_value", value), as the record [scalar], [list], [dict] or
\* [dump] that _value is, or [fields] for a dict with no "_value"
ValueOf(value) == IF "_value" \in DOMAIN value THEN value._value ELSE [fields |-> value]

\* isinstance(v, dict)
IsDict(v) == DOMAIN v \cap {"dict", "fields", "dump"} # {}

\* set(v.keys()) of a dict of serialized values
KeysOf(v) ==
    IF "dict" \in DOMAIN v THEN {v.dict[i].key.name : i \in 1..Len(v.dict)}
    ELSE IF "fields" \in DOMAIN v THEN DOMAIN v.fields
    ELSE {}

\* v[key]: a serialized value, or [raw] for a field that is a str or a bool
GetItem(v, key) ==
    IF "dict" \in DOMAIN v
    THEN v.dict[CHOOSE i \in 1..Len(v.dict) :
                    /\ v.dict[i].key.name = key
                    /\ \A j \in (i + 1)..Len(v.dict) : v.dict[j].key.name # key].tree
    ELSE [raw |-> ToString(v.fields[key])]

Changed(path, from, to) ==
    [path |-> path, type |-> "changed", from |-> from, to |-> to]

RECURSIVE _diff_values(_, _, _)

\* SnapshotEngine._diff_values: the entries of the dict returned
_diff_values(value1, value2, path) ==
    IF value1 = value2 THEN {}
    ELSE IF "raw" \in DOMAIN value1
    \* two fields of the same name: str or bool, of the same type
    THEN {Changed(path, value1, value2)}
    ELSE IF TypeName(value1) # TypeName(value2)
    THEN {[path |-> path, type |-> "type_changed",
           from_type |-> TypeName(value1), to_type |-> TypeName(value2)]}
    ELSE LET v1 == ValueOf(value1)
             v2 == ValueOf(value2)
         IN IF IsDict(v1) /\ IsDict(v2)
            THEN UNION {
                   IF key \notin KeysOf(v1)
                   THEN {[path |-> path \o "." \o key, type |-> "added",
                          value |-> GetItem(v2, key)]}
                   ELSE IF key \notin KeysOf(v2)
                   THEN {[path |-> path \o "." \o key, type |-> "removed",
                          value |-> GetItem(v1, key)]}
                   ELSE _diff_values(GetItem(v1, key), GetItem(v2, key),
                                     path \o "." \o key)
                   : key \in KeysOf(v1) \cup KeysOf(v2)}
            ELSE {Changed(path, v1, v2)}

\* a diff that reports the root as changed without comparing
diff_RootChanged(snapshot1, snapshot2) ==
    [done |-> TRUE,
     entries |-> {Changed("root", ValueOf(snapshot1.state), ValueOf(snapshot2.state))}]

\* SnapshotEngine.diff
diff(snapshot1, snapshot2) ==
    [done |-> TRUE, entries |-> _diff_values(snapshot1.state, snapshot2.state, "root")]

\* a state, and the state it has become when captured again: the same, or the
\* last of its objects is another scalar
InitDiff ==
    /\ InitRecorder
    /\ InitCtx
    /\ InitLock
    /\ replayed = NotReplayed
    /\ disk = EmptyDisk
    /\ NothingRegistered
    /\ heap \in DiffHeaps
    /\ heap2 \in {heap} \cup {[heap EXCEPT ![MaxDiffNodes] = v] : v \in DiffLeaves}
    /\ captured = NotCaptured
    /\ captured2 = NotCaptured
    /\ restored = NotRestored
    /\ changes = NotDiffed

\* engine.capture(state, trace_id, event_id), the second time
Capture2 ==
    /\ captured.done
    /\ ~captured2.done
    /\ captured2' = capture(heap2)
    /\ UNCHANGED <<current_session, event_stack, sessions, events, snapshots,
                   storage, scopes, span_log, contexts, recorders, trace_calls,
                   lock, pc, replayed, disk, heap, captured, restored, heap2, changes,
                   _custom_serializers, _custom_deserializers>>

\* engine.diff(snapshot1, snapshot2)
Diff ==
    /\ captured.done /\ ~captured.raised
    /\ captured2.done /\ ~captured2.raised
    /\ ~changes.done
    /\ changes' = diff(captured.snapshot, captured2.snapshot)
    /\ UNCHANGED <<current_session, event_stack, sessions, events, snapshots,
                   storage, scopes, span_log, contexts, recorders, trace_calls,
                   lock, pc, replayed, disk, heap, captured, restored, heap2, captured2,
                   _custom_serializers, _custom_deserializers>>

NextDiff == Capture \/ Capture2 \/ Diff

SpecDiff == InitDiff /\ [][NextDiff]_vars

\* ------------------------------------- snapshot.py: diff of any two states
\* Two states captured one after the other, each of MaxChangeNodes objects
\* that refer to later objects only: scalars, dicts of up to two keys, and
\* instances of a class Obj of one of two modules with one public attribute.
\* Python compares dicts whatever the order of their keys; the dicts drawn
\* hold their keys in one order, so that equal dicts are equal sequences.
MaxChangeNodes == 3

BKey == [name |-> "b", type |-> "str", str_ok |-> TRUE]

\* the key "a.b"
DottedKey == [name |-> "a.b", type |-> "str", str_ok |-> TRUE]

\* what object n of a state can be; the last object is any of the scalars
ChangeValues(n) ==
    {Primitive("int", "1"), DictValue(<<>>)}
    \cup (IF n = MaxChangeNodes
          THEN {Primitive("int", "2"), Primitive("str", "a")} ELSE {})
    \cup {DictValue(<<[key |-> key, val |-> c]>>) :
             key \in {StrKey, BKey, DottedKey}, c \in (n + 1)..MaxChangeNodes}
    \cup {DictValue(<<[key |-> StrKey, val |-> c], [key |-> DottedKey, val |-> d]>>) :
             c \in (n + 1)..MaxChangeNodes, d \in (n + 1)..MaxChangeNodes}
    \cup {InstanceOf(module, "Obj", TRUE, <<[key |-> PublicAttr, val |-> c]>>, TRUE, TRUE) :
             module \in {"m", "m2"}, c \in (n + 1)..MaxChangeNodes}

RECURSIVE ChangeHeapsFrom(_)
ChangeHeapsFrom(n) ==
    IF n > MaxChangeNodes THEN {<<>>}
    ELSE {<<v>> \o rest : v \in ChangeValues(n), rest \in ChangeHeapsFrom(n + 1)}

\* The dict _diff_values returns is keyed by path: of the entries written
\* under one path the one written last stays.  The loop runs over a set of
\* keys, in an order that is not determined, so any of them can be the last.
ChangesDicts(written) ==
    LET paths == {entry.path : entry \in written}
    IN {{f[p] : p \in paths} :
            f \in {g \in [paths -> written] : \A p \in paths : g[p].path = p}}

InitChange ==
    /\ InitRecorder
    /\ InitCtx
    /\ InitLock
    /\ replayed = NotReplayed
    /\ disk = EmptyDisk
    /\ NothingRegistered
    /\ heap \in ChangeHeapsFrom(1)
    /\ heap2 \in ChangeHeapsFrom(1)
    /\ captured = NotCaptured
    /\ captured2 = NotCaptured
    /\ restored = NotRestored
    /\ changes = NotDiffed

\* engine.diff(snapshot1, snapshot2), the dict it returns
DiffDict ==
    /\ captured.done /\ ~captured.raised
    /\ captured2.done /\ ~captured2.raised
    /\ ~changes.done
    /\ \E entries \in ChangesDicts(diff(captured.snapshot, captured2.snapshot).entries) :
          changes' = [done |-> TRUE, entries |-> entries]
    /\ UNCHANGED <<current_session, event_stack, sessions, events, snapshots,
                   storage, scopes, span_log, contexts, recorders, trace_calls,
                   lock, pc, replayed, disk, heap, captured, restored, heap2, captured2,
                   _custom_serializers, _custom_deserializers>>

NextChange == Capture \/ Capture2 \/ DiffDict

SpecChange == InitChange /\ [][NextChange]_vars

\* ------------------------------------------- recorder.py: record_tool_call
\* the results and errors handed to record_tool_call
ToolResults ==
    {NoResult, [type |-> "int", v |-> "3"], [type |-> "int", v |-> "0"],
     [type |-> "str", v |-> ""]}

ToolErrors == {NoError, AnError}

NextTool ==
    \/ StartSession
    \/ \E status \in EndStatuses : EndSession(status)
    \/ \E result \in ToolResults, error \in ToolErrors :
          RecordToolCallWith("calc", result, error)

SpecTool == Init /\ [][NextTool]_vars

\* ----------------------------------------------- decorators.py: @trace alone
\* Calls of functions decorated with recorder.trace and nothing else: no
\* session is started or ended but by the wrappers.
NextTrace ==
    \/ \E t \in Threads : SpanEnter(t)
    \/ \E t \in Threads, how \in BodyOutcomes : BodyExit(t, "trace", how)
    \/ \E t \in Threads : SpanExit(t)

SpecTrace == Init /\ [][NextTrace]_vars

\* ------------------------------------------ storage/json_file.py and replay
\* The variable storage is the log of the calls of save_session, oldest
\* first.  JsonFileStorage keeps a file per session and index.json, a list of
\* entries that save_session rewrites: both are what the log makes them.

\* list_sessions(self, limit: int = 100)
limit == 100

\* the entry of index.json for a saved session
IndexEntry(dump) ==
    [id |-> dump.id, status |-> dump.status, event_count |-> Len(dump.events)]

\* JsonFileStorage._load_index after the saves of log: each save removes the
\* entry of the same id and inserts the new entry at the beginning
RECURSIVE _load_index(_)
_load_index(log) ==
    IF log = <<>> THEN <<>>
    ELSE LET session == log[Len(log)]
             index == _load_index(SubSeq(log, 1, Len(log) - 1))
         IN <<IndexEntry(session)>>
                \o SelectSeq(index, LAMBDA s : s.id # session.id)

\* JsonFileStorage.list_sessions: index[:limit]
list_sessions(log) ==
    LET index == _load_index(log)
    IN SubSeq(index, 1, IF Len(index) < limit THEN Len(index) ELSE limit)

\* Recorder.replay() with no session id: the session it loads, none when
\* nothing is stored
replay(log) ==
    LET listed == list_sessions(log)
    IN IF listed # <<>>
       THEN [done |-> TRUE, session_id |-> listed[Len(listed)].id]
       ELSE [done |-> TRUE, session_id |-> NoId]

\* recorder.replay()
Replay ==
    /\ replayed' = replay(storage)
    /\ UNCHANGED <<current_session, event_stack, sessions, events, snapshots,
                   storage, scopes, span_log, contexts, recorders, trace_calls,
                   lock, pc, engine, disk>>

NextStore ==
    \/ StartSession
    \/ \E status \in EndStatuses : EndSession(status)
    \/ \E outcome \in ToolOutcomes : RecordToolCall(outcome)
    \/ Replay

SpecStore == Init /\ [][NextStore]_vars

\* ------------------------------------------- storage/json_file.py: the files
\* A JsonFileStorage directory: disk.files holds a record for each file
\* session_<id>.json that exists, with what it holds (a whole JSON document,
\* or the beginning of one), disk.index is the list in index.json, disk.calls
\* counts the calls made and disk.last is what the last call came to.
MaxStoreIds == 2
MaxStoreCalls == 4

StoreIds == 1..MaxStoreIds

\* session_path.exists()
Exists(D, session_id) == \E f \in D.files : f.id = session_id

\* open(session_path, "w") ... : the file is created, or emptied, and written
WriteFile(D, session_id, content) ==
    {f \in D.files : f.id # session_id} \cup {[id |-> session_id, content |-> content]}

\* JsonFileStorage.save_session(session) for a session of the given id;
\* encodable: json.dump accepts session.model_dump() (it raises TypeError for
\* a dict key that is not a str, int, float, bool or None, and ValueError for
\* a circular reference, both of which the metadata of a session can hold).
\* The entry of the index carries the number of the call for the session's
\* end_time, status and counts.
JsonFileStorage_save_session(D, session_id, encodable) ==
    IF ~encodable
    THEN [D EXCEPT !.files = WriteFile(D, session_id, "partial"),
                   !.calls = @ + 1,
                   !.last = [op |-> "save_session", id |-> session_id,
                             result |-> "TypeError"]]
    ELSE [D EXCEPT !.files = WriteFile(D, session_id, "json"),
                   !.index = <<[id |-> session_id, saved |-> D.calls + 1]>>
                                 \o SelectSeq(D.index, LAMBDA s : s.id # session_id),
                   !.calls = @ + 1,
                   !.last = [op |-> "save_session", id |-> session_id,
                             result |-> "id"]]

\* JsonFileStorage.load_session(session_id)
JsonFileStorage_load_session(D, session_id) ==
    [D EXCEPT !.calls = @ + 1,
              !.last = [op |-> "load_session", id |-> session_id,
                        result |->
                            IF ~Exists(D, session_id) THEN "FileNotFoundError"
                            ELSE IF [id |-> session_id, content |-> "json"] \in D.files
                            THEN "session"
                            ELSE "JSONDecodeError"]]

\* JsonFileStorage.list_sessions(limit): index[:limit], for limit >= 0
JsonFileStorage_list_sessions(D, n) ==
    [D EXCEPT !.calls = @ + 1,
              !.last = [op |-> "list_sessions", id |-> NoId,
                        result |-> SubSeq(D.index, 1,
                                          IF n < Len(D.index) THEN n ELSE Len(D.index))]]

\* JsonFileStorage.delete_session(session_id)
JsonFileStorage_delete_session(D, session_id) ==
    IF ~Exists(D, session_id)
    THEN [D EXCEPT !.calls = @ + 1,
                   !.last = [op |-> "delete_session", id |-> session_id,
                             result |-> "False"]]
    ELSE [D EXCEPT !.files = {f \in @ : f.id # session_id},
                   !.index = SelectSeq(@, LAMBDA s : s.id # session_id),
                   !.calls = @ + 1,
                   !.last = [op |-> "delete_session", id |-> session_id,
                             result |-> "True"]]

\* nothing but the directory changes
DiskOnly ==
    UNCHANGED <<current_session, event_stack, sessions, events, snapshots,
                storage, scopes, span_log, contexts, recorders, trace_calls,
                lock, pc, engine, replayed>>

SaveSession(session_id, encodable) ==
    /\ disk.calls < MaxStoreCalls
    /\ disk' = JsonFileStorage_save_session(disk, session_id, encodable)
    /\ DiskOnly

LoadSession(session_id) ==
    /\ disk.calls < MaxStoreCalls
    /\ disk' = JsonFileStorage_load_session(disk, session_id)
    /\ DiskOnly

ListSessions(n) ==
    /\ disk.calls < MaxStoreCalls
    /\ disk' = JsonFileStorage_list_sessions(disk, n)
    /\ DiskOnly

DeleteSession(session_id) ==
    /\ disk.calls < MaxStoreCalls
    /\ disk' = JsonFileStorage_delete_session(disk, session_id)
    /\ DiskOnly

NextJson ==
    \/ \E session_id \in StoreIds, encodable \in BOOLEAN :
          SaveSession(session_id, encodable)
    \/ \E session_id \in StoreIds : LoadSession(session_id)
    \/ \E n \in 0..MaxStoreIds : ListSessions(n)
    \/ \E session_id \in StoreIds : DeleteSession(session_id)

SpecJson == Init /\ [][NextJson]_vars

\* ------------------------------------------------ spans of several threads
\* Threads that use "with recorder.span(...)" on one Recorder and call nothing
\* else of it: each thread's scopes are nested, the threads interleave freely.
NextSpans ==
    \/ \E t \in Threads : SpanEnter(t)
    \/ \E t \in Threads, how \in BodyOutcomes : BodyExit(t, "span", how)
    \/ \E t \in Threads : SpanExit(t)

SpecSpans == Init /\ [][NextSpans]_vars

\* ------------------------------------------------------------- properties
Spans == {e \in 1..Len(events) : events[e].event_type = "span"}

\* the event whose scope thread t is innermost in
ScopeSpan(t) == Top(scopes[t]).span

\* the scope that opened span e has returned to its caller
Exited(e) == span_log[e].out # "none"

\* C1: beginning a span gives it the id of the span on top of the stack as
\* parent_id, or leaves parent_id empty when the stack is empty; the span is
\* appended to the current session's event sequence and pushed on the stack.
C1_SpanBeginLinksToTop ==
    [][\A t \in Threads : SpanEnter(t) =>
          LET e == Len(events) + 1
              r == current_session'
          IN /\ events'[e].parent_id =
                    (IF event_stack # <<>> THEN events[Top(event_stack)].id ELSE NoId)
             /\ r # None
             /\ sessions'[r].events =
                    Append(IF current_session # None
                           THEN sessions[current_session].events ELSE <<>>, e)
             /\ event_stack' = Append(event_stack, e)
             /\ Top(event_stack') = e]_vars

\* C1 witness: span B was begun while span A was on top of the stack.
C1_Witness ==
    /\ Len(event_stack) = 2
    /\ events[event_stack[2]].parent_id = events[event_stack[1]].id
    /\ events[event_stack[1]].parent_id = NoId
    /\ Top(sessions[current_session].events) = event_stack[2]

\* One context has opened a span, a second one inside it, and closed both;
\* nothing else was recorded and no other session was started.
NestedPairClosed ==
    /\ Len(sessions) = 1
    /\ Len(events) = 2
    /\ Spans = {1, 2}
    /\ span_log[1].depth = 0 /\ span_log[2].depth = 1
    /\ span_log[1].ends = 1 /\ span_log[2].ends = 1

NestedPairSaved ==
    /\ Len(storage) = 1
    /\ Len(storage[1].events) = 2
    /\ storage[1].root_event_id = events[1].id
    /\ storage[1].events[2].parent_id = storage[1].events[1].id
    /\ events[2].parent_id = events[1].id

C3_EndOfNonTopIsNoOp ==
    [][\A t \in Threads :
          (SpanExit(t) /\ ~IsTop(State, ScopeSpan(t))) =>
              UNCHANGED <<event_stack, current_session, sessions, storage>>]_vars

\* C3 failing case, reached: a span begun in session 1 ended after
\* start_session had reset the stack, and its end finalized session 2.
C3_Reached ==
    \E e \in Spans :
        /\ span_log[e].finalized # None
        /\ events[e].trace_id # sessions[span_log[e].finalized].id

\* C4: a Recorder.span scope goes on to _record_span_end on every exit path of
\* its body (return, exception, cancellation), and the call is made exactly
\* once, as the scope exits.
C4_SpanScopeEndsOnce ==
    /\ [](\A t \in Threads : \A i \in 1..Len(scopes[t]) :
             span_log[scopes[t][i].span].ends = 0)
    /\ [](\A e \in Spans : span_log[e].ends <= 1)
    /\ [][\A t \in Threads, how \in BodyOutcomes :
            BodyExit(t, "span", how) =>
                /\ Len(scopes'[t]) = Len(scopes[t])
                /\ Top(scopes'[t]).span = ScopeSpan(t)
                /\ Top(scopes'[t]).pc = "end"]_vars
    /\ [][\A t \in Threads :
            SpanExit(t) =>
                /\ span_log'[ScopeSpan(t)].ends = 1
                /\ scopes'[t] = Pop(scopes[t])]_vars

\* C4 witness: a scope whose body was cancelled has exited after one call of
\* _record_span_end (only a Recorder.span scope does that).
C4_Witness ==
    \E e \in Spans :
        span_log[e].how = "cancel" /\ span_log[e].ends = 1 /\ Exited(e)

\* C5: a @trace wrapper goes on to _record_span_end on every exit path of the
\* wrapped call (return, exception, cancellation).
C5_TraceWrapperAlwaysEnds ==
    [][\A t \in Threads, how \in BodyOutcomes :
          BodyExit(t, "trace", how) =>
              /\ Len(scopes'[t]) = Len(scopes[t])
              /\ Top(scopes'[t]).pc = "end"]_vars

\* C6: a span whose body was cancelled and that has been ended has status
\* error, and a session finalized by the end of that span is finalized with
\* status error.
C6_CancelTakesFailurePath ==
    \A e \in Spans :
        (span_log[e].how = "cancel" /\ span_log[e].ends = 1) =>
            /\ events[e].status = ERROR
            /\ span_log[e].finalized # None =>
                   sessions[span_log[e].finalized].status = ERROR

FinalDump(r, status) ==
    [id |-> sessions[r].id, status |-> status, ended |-> TRUE,
     root_event_id |-> sessions[r].root_event_id,
     events |-> [i \in 1..Len(sessions[r].events) |-> events[sessions[r].events[i]]],
     snapshots |-> [i \in 1..Len(sessions[r].snapshots) |->
                        snapshots[sessions[r].snapshots[i]]]]

Occurrences(e) ==
    Cardinality({p \in {<<r, i>> : r \in 1..Len(sessions), i \in 1..Len(events)} :
                    /\ p[2] <= Len(sessions[p[1]].events)
                    /\ sessions[p[1]].events[p[2]] = e})

\* the step created a session, made it current and appended event e to it
AutoStarted(e) ==
    /\ Len(sessions') = Len(sessions) + 1
    /\ current_session' = Len(sessions')
    /\ sessions'[current_session'].events = <<e>>
    /\ events'[e].trace_id = sessions'[current_session'].id

\* C11: a span begin, record_llm_call or record_tool_call made while no
\* session is active creates a session and appends the event to it; and every
\* recorded event is a member of exactly one session's event sequence, once.
C11_RecordingAutoStarts ==
    /\ [](\A e \in 1..Len(events) : Occurrences(e) = 1)
    /\ [][(current_session = None /\
            \/ \E t \in Threads : SpanEnter(t)
            \/ \E outcome \in ToolOutcomes : RecordToolCall(outcome)
            \/ \E has_response \in BOOLEAN : RecordLLMCall(has_response))
           => AutoStarted(Len(events'))]_vars

\* C11 witness: an LLM call recorded with a response is the only event of the
\* only session, which is current and was never ended: the state that
\* record_llm_call leaves when it is the first call made on the recorder.
C11_Witness ==
    /\ Len(sessions) = 1
    /\ current_session = 1
    /\ storage = <<>>
    /\ Len(events) = 1
    /\ events[1].event_type = "llm_call"
    /\ events[1].status = SUCCESS
    /\ events[1].trace_id = sessions[1].id
    /\ sessions[1].events = <<1>>
    /\ sessions[1].root_event_id = events[1].id

\* C12: capture_state made while no session is active starts one, and after
\* every capture_state the snapshot is the last member of the active session's
\* snapshot sequence and carries that session's id as trace_id.
C12_CaptureStateAutoStarts ==
    [][CaptureState =>
          LET n == Len(snapshots')
          IN /\ current_session' # None
             /\ sessions'[current_session'].snapshots # <<>>
             /\ Top(sessions'[current_session'].snapshots) = n
             /\ snapshots'[n].trace_id = sessions'[current_session'].id]_vars

\* C14: a span begun in a thread gets as parent the innermost span still open
\* in that same thread, or no parent when the thread has no open span; never a
\* span opened by another thread.
C14_ParentIsOfSameContext ==
    [][\A t \in Threads :
          SpanEnter(t) =>
              events'[Len(events')].parent_id =
                  IF scopes[t] # <<>> THEN events[ScopeSpan(t)].id ELSE NoId]_vars

\* positions of session r's event sequence whose event has no parent
Parentless(r) ==
    {i \in 1..Len(sessions[r].events) :
        events[sessions[r].events[i]].parent_id = NoId}

\* id of the first appended event of session r that has no parent, if any
FirstParentless(r) ==
    IF Parentless(r) = {} THEN NoId
    ELSE LET i == CHOOSE k \in Parentless(r) : \A j \in Parentless(r) : k <= j
         IN events[sessions[r].events[i]].id

\* C18: every event in a session's event sequence has that session's id as
\* trace_id; a session's root_event_id is unset or the id of the first
\* appended event without a parent, and once set it never changes.
C18_TraceIdAndRoot ==
    /\ [](\A r \in 1..Len(sessions) :
            /\ \A i \in 1..Len(sessions[r].events) :
                   events[sessions[r].events[i]].trace_id = sessions[r].id
            /\ sessions[r].root_event_id = FirstParentless(r))
    /\ [][\A r \in 1..Len(sessions) :
            sessions[r].root_event_id # NoId =>
                sessions'[r].root_event_id = sessions[r].root_event_id]_vars

\* C18 witness: a session holds a parentless tool call, then a parentless span,
\* then an event under that span; the root is still the tool call.
C18_Witness ==
    \E r \in 1..Len(sessions) :
        /\ Len(sessions[r].events) = 3
        /\ events[sessions[r].events[1]].event_type = "tool_call"
        /\ events[sessions[r].events[2]].event_type = "span"
        /\ events[sessions[r].events[2]].parent_id = NoId
        /\ events[sessions[r].events[3]].parent_id = events[sessions[r].events[2]].id
        /\ sessions[r].root_event_id = events[sessions[r].events[1]].id

\* C19: once a session is finalized nothing about it changes: it is not the
\* current session again, its own record (status, end time, event and snapshot
\* sequences, root) stays as it is, and none of its events changes.
C19_FinalizedIsFrozen ==
    [][\A r \in 1..Len(sessions) :
          sessions[r].ended =>
              /\ current_session' # r
              /\ sessions'[r] = sessions[r]
              /\ \A i \in 1..Len(sessions[r].events) :
                     events'[sessions[r].events[i]] = events[sessions[r].events[i]]]_vars

\* C16: once an event's status is terminal no call changes it again.
C16_TerminalStatusIsFinal ==
    [][\A e \in 1..Len(events) :
          events[e].status \in Terminal =>
              events'[e].status = events[e].status]_vars

\* C17: an event has its end timestamp and duration set exactly when its
\* status is terminal.
C17_EndedIffTerminal ==
    \A e \in 1..Len(events) :
        events[e].ended <=> events[e].status \in Terminal

\* C17 witness: one event is still running with no end timestamp, another was
\* failed and then completed, and has its end timestamp.
C17_Witness ==
    /\ Len(events) = 2
    /\ events[1].status = RUNNING /\ ~events[1].ended
    /\ events[2].status = SUCCESS /\ events[2].ended
    /\ events[2].error = ErrMsg

\* C15: a context started where get_current_recorder() returns the Recorder
\* gets the same Recorder from get_current_recorder(), whether it is a new
\* thread or a new task.
C15_RecorderSeenInNewContexts ==
    [][\A c \in 1..Len(contexts) :
          (StartThread(c) \/ CreateTask(c)) /\ get_current_recorder(c) # None =>
              contexts'[Len(contexts')].recorder = get_current_recorder(c)]_vars

\* how many times snapshot n occurs in the snapshot sequences of all sessions
SnapshotOccurrences(n) ==
    Cardinality({p \in {<<r, i>> : r \in 1..Len(sessions), i \in 1..Len(snapshots)} :
                    /\ p[2] <= Len(sessions[p[1]].snapshots)
                    /\ sessions[p[1]].snapshots[p[2]] = n})

\* event e was created for a recording call that has not appended it yet
NotYetAppended(e) ==
    \E t \in Threads :
        /\ pc[t].op \in {"_record_event", "_record_span_start"}
        /\ pc[t].e = e
        /\ pc[t].at \in {"acquire", "autostart", "parent", "add"}

\* snapshot n was captured by a capture_state that has not appended it yet
SnapshotNotYetAppended(n) ==
    \E t \in Threads :
        pc[t].op = "capture_state" /\ pc[t].e = n /\ pc[t].at = "add"

\* the recorder's state as it was when thread t entered the lock, with the
\* event and snapshot objects as they are now
Rewound(t) ==
    [State EXCEPT !.cur = pc[t].held.cur, !.stack = pc[t].held.stack,
                  !.sessions = pc[t].held.sessions,
                  !.storage = pc[t].held.storage]

\* C13: the event and snapshot sequences, the span stack and the
\* current-session reference change only in steps of the thread that owns the
\* lock; what a method leaves on release is what the method does as one step
\* from the state it found on acquire, so the outcome is that of the methods
\* run one after another in the order of their acquires; no method raises, no
\* appended event or snapshot is missing and none occurs twice.
C13_LockSerializes ==
    /\ [](\A t \in Threads : pc[t].at # "raise")
    /\ [](\A e \in 1..Len(events) :
            Occurrences(e) = IF NotYetAppended(e) THEN 0 ELSE 1)
    /\ [](\A n \in 1..Len(snapshots) :
            SnapshotOccurrences(n) =
                IF snapshots[n].trace_id = NoId \/ SnapshotNotYetAppended(n)
                THEN 0 ELSE 1)
    /\ [][Protected(State)' # Protected(State) =>
            /\ lock.owner # NoThread
            /\ lock'.owner = lock.owner
            /\ \A t \in Threads : pc'[t] # pc[t] => t = lock.owner]_vars
    /\ [][\A t \in Threads :
            Release(t) =>
                Protected(State) = Protected(Atomic(Rewound(t), pc[t]))]_vars

\* C13 witness: one thread is inside _record_event, past the auto-start and
\* before the append, and owns the lock; the other has called end_session and
\* waits at the acquire.
C13_Witness ==
    /\ lock.owner = "t1"
    /\ pc["t1"].op = "_record_event" /\ pc["t1"].at = "add"
    /\ pc["t2"].op = "end_session" /\ pc["t2"].at = "acquire"
    /\ current_session # None
    /\ Occurrences(pc["t1"].e) = 0

\* C20: SnapshotEngine.capture raises for no value: every call returns a
\* StateSnapshot.
C20_CaptureNeverRaises == captured.done => ~captured.raised

\* the snapshot a finished call of capture returned
Captured == captured.done /\ ~captured.raised

\* the paths of the nodes that serialization reached with no depth budget
\* left: each of them appended "<path>: max depth reached"
DepthExceededPaths ==
    LET w == captured.snapshot.serialization_warnings
    IN {w[i].path : i \in {j \in 1..Len(w) : w[j].what = "max depth reached"}}

\* C21: whenever serialization reaches a node with no depth budget left, the
\* snapshot returned has restorable = false and a depth-exceeded warning
\* naming the path of that node.
C21_DepthExceededNotRestorable ==
    (Captured /\ DepthExceededPaths # {}) => ~captured.snapshot.restorable

\* the objects that object n of heap h refers to
Children(h, n) == {h[n].items[j].val : j \in 1..Len(h[n].items)}

\* the objects of heap h that the value (object 1) contains: those reached
\* from the objects R in at most i steps
RECURSIVE Contained(_, _, _)
Contained(h, R, i) ==
    IF i = 0 THEN R
    ELSE Contained(h, R \cup UNION {Children(h, n) : n \in R}, i - 1)

\* the value is built from None, scalars, lists, tuples and dicts only
Plain(h) ==
    \A n \in Contained(h, {1}, MaxNodes) : h[n].k \in {"none", "prim", "list", "dict"}

\* the value whose objects are h, from object n down, as a Python value
RECURSIVE Unfold(_, _, _)
Unfold(h, n, depth) ==
    IF depth = 0 THEN Py("object", "too deep", <<>>)
    ELSE IF h[n].k \in {"none", "prim"} THEN Py(h[n].type, h[n].v, <<>>)
    ELSE Py(IF h[n].k = "list" THEN h[n].base ELSE "dict", "",
            [i \in 1..Len(h[n].items) |->
                [key |-> [name |-> h[n].items[i].key.name,
                          type |-> h[n].items[i].key.type],
                 val |-> Unfold(h, h[n].items[i].val, depth - 1)]])

\* C22: for a value v built from None, scalars, lists, tuples (and their
\* subclasses) and dicts (whatever the type of their keys) within the depth
\* budget, restoring the snapshot of v gives a value of v's shape: equal
\* scalars, sequences of the same kind with the same items in order, dicts
\* with the same keys, nested values equal.
C22_RoundTrip ==
    (restored.done /\ Plain(heap) /\ DepthExceededPaths = {})
        => restored.value = Unfold(heap, 1, max_depth)

\* the entry of the registry for the type of the value captured, if any
RootSerializer == Registered(heap[1])

\* the registered serializer was used for the value captured
UsedCustom == Captured /\ "_custom" \in DOMAIN captured.snapshot.state

\* the registered serializer is used before every generic rule
C25_Precedence ==
    (Captured /\ RootSerializer # <<>> /\ RootSerializer[1].ok)
        => /\ UsedCustom
           /\ captured.snapshot.state._custom = RootSerializer[1].serializer

\* a registered serializer that raises leaves a warning and the generic form
C25_FallsThrough ==
    (Captured /\ RootSerializer # <<>> /\ ~RootSerializer[1].ok)
        => /\ ~UsedCustom
           /\ captured.snapshot.serialization_warnings[1] =
                  Warning("root", "custom serializer failed")
           /\ captured.snapshot.state =
                  [_value |-> [dict |-> <<>>], _type |-> heap[1].type,
                   _module |-> heap[1].module]

\* restore invokes the deserializer registered together with the serializer
C25_PairedDeserializer ==
    (restored.done /\ UsedCustom)
        => restored.value.v = captured.snapshot.state._custom

\* C25: a value whose type has a registered serializer is serialized by it in
\* preference to every generic rule, and restoring the result invokes the
\* deserializer registered together with that serializer; when the serializer
\* raises, a warning is recorded and the generic chain serializes the value.
C25_CustomSerializer ==
    C25_Precedence /\ C25_FallsThrough /\ C25_PairedDeserializer

\* C23: diffing a snapshot against one with an equal serialized state (itself
\* included) gives no entry at any path.
C23_EqualStatesDiffEmpty ==
    (changes.done /\ captured.snapshot.state = captured2.snapshot.state)
        => changes.entries = {}

\* C23 witness: a dict was captured twice, an object outside it having
\* changed in between, and the diff of the two snapshots is empty.
C23_Witness ==
    /\ changes.done
    /\ heap # heap2
    /\ heap[1].k = "dict"
    /\ captured.snapshot.state = captured2.snapshot.state
    /\ changes.entries = {}

\* the two states are dicts that differ only in element 1 of the list of two
\* under the key "items"
DifferOnlyInItems1 ==
    /\ heap[1].k = "dict"
    /\ heap[1].items[1].key = ItemsKey
    /\ heap2[1] = heap[1]
    /\ LET items == heap[1].items[1].val
       IN /\ heap[items].k = "list"
          /\ Len(heap[items].items) = 2
          /\ heap2[items] = heap[items]
          /\ Unfold(heap, heap[items].items[1].val, max_depth)
                 = Unfold(heap2, heap[items].items[1].val, max_depth)
          /\ Unfold(heap, heap[items].items[2].val, max_depth)
                 # Unfold(heap2, heap[items].items[2].val, max_depth)

\* C24: the diff of two snapshots of dicts that differ only in element 1 of
\* the list under "items" is exactly one entry, of type changed, at
\* root.items[1].
C24_ListElementDiff ==
    (changes.done /\ DifferOnlyInItems1)
        => \E entry \in changes.entries :
              /\ changes.entries = {entry}
              /\ entry.type = "changed"
              /\ entry.path = "root.items[1]"

\* C26: record_tool_call appends exactly one tool-call event to the current
\* session; with a result passed the event carries tool_name, the result, the
\* name of the result's type and status success; with an error passed instead
\* it carries the error's message and type name and status error.
C26_RecordToolCall ==
    [][\A result \in ToolResults, error \in ToolErrors :
          RecordToolCallWith("calc", result, error) =>
              LET e == Len(events) + 1
                  ev == events'[e]
              IN /\ Len(events') = e
                 /\ current_session' # None
                 /\ sessions'[current_session'].events =
                        Append(IF current_session # None
                               THEN sessions[current_session].events ELSE <<>>, e)
                 /\ ev.event_type = "tool_call"
                 /\ ev.tool_name = "calc"
                 /\ result # NoResult =>
                        /\ ev.result = result
                        /\ ev.result_type = result.type
                        /\ ev.status = SUCCESS
                 /\ (result = NoResult /\ error # NoError) =>
                        /\ ev.error_message = error.msg
                        /\ ev.error_type = error.type
                        /\ ev.status = ERROR]_vars

\* C26 witness: the session holds a tool call recorded with the result 0 and
\* one recorded with an error.
C26_Witness ==
    /\ current_session # None
    /\ Len(sessions[current_session].events) = 2
    /\ LET a == events[sessions[current_session].events[1]]
           b == events[sessions[current_session].events[2]]
       IN /\ a.tool_name = "calc" /\ a.result = [type |-> "int", v |-> "0"]
          /\ a.result_type = "int" /\ a.status = SUCCESS
          /\ b.error_message = ErrMsg /\ b.error_type = "ValueError"
          /\ b.status = ERROR

\* the sessions whose first event is e: the session started for e when e was
\* recorded with no session active
StartedFor(e) ==
    {r \in 1..Len(sessions) : sessions[r].events # <<>> /\ sessions[r].events[1] = e}

\* C27: a call of a function decorated with recorder.trace, made while no
\* session is active, returns the function's result, and when it returns
\* exactly one new session has been saved, with the call's span as its root
\* event, and no session is active.
C27_TracedCallSavesOneSession ==
    [][\A t \in Threads :
          (SpanExit(t) /\ Top(scopes[t]).pending = "return"
              /\ StartedFor(Top(scopes[t]).span) # {})
          => LET e == Top(scopes[t]).span
                 r == CHOOSE r \in StartedFor(e) : TRUE
             IN /\ span_log'[e].out = "return"
                /\ Len(storage') = Len(storage) + 1
                /\ Top(storage').id = sessions[r].id
                /\ Top(storage').root_event_id = events[e].id
                /\ current_session' = None]_vars

\* C28: after one or more sessions were saved, replay called with no session
\* id selects the session saved most recently.
C28_ReplaySelectsLatest ==
    [][(Replay /\ storage # <<>>) => replayed'.session_id = Top(storage).id]_vars

\* the step finalizes session r: it was running and is now ended
Finalizes(r) == ~sessions[r].ended /\ sessions'[r].ended

\* C29: a session is finalized only by end_session, by a start_session that
\* replaces it, or by the end of a span begun in that same session; the end of
\* a span begun in an earlier session never finalizes the current session.
C29_FinalizedByOwnSpanOnly ==
    [][\A r \in 1..Len(sessions) :
          Finalizes(r) =>
              \/ \E status \in EndStatuses : EndSession(status)
              \/ StartSession
              \/ \E t \in Threads :
                    /\ SpanExit(t)
                    /\ events[ScopeSpan(t)].trace_id = sessions[r].id]_vars

\* every scope of every thread has exited, and there was one
AllScopesExited == Spans # {} /\ \A t \in Threads : scopes[t] = <<>>

\* session r is finalized and its final state is the one saved last under
\* its id
FinalizedAndSaved(r) ==
    /\ sessions[r].ended
    /\ \E i \in 1..Len(storage) :
          /\ storage[i] = model_dump(State, r)
          /\ \A j \in (i + 1)..Len(storage) : storage[j].id # sessions[r].id

\* C30: when threads each open spans on the same Recorder and close them,
\* each thread's own spans nested, then for every interleaving no span closed
\* by its owner remains on the stack, and once all scopes have exited the
\* stack is empty and the session of the spans is finalized and saved.
C30_SpansOfThreadsAllClosed ==
    /\ \A i \in 1..Len(event_stack) : ~Exited(event_stack[i])
    /\ AllScopesExited =>
          /\ event_stack = <<>>
          /\ current_session = None
          /\ \A r \in 1..Len(sessions) : FinalizedAndSaved(r)

\* the saved sessions that hold a span still running
SavedWithRunningSpan ==
    {i \in 1..Len(storage) :
        \E j \in 1..Len(storage[i].events) :
            /\ storage[i].events[j].event_type = "span"
            /\ storage[i].events[j].status = RUNNING}

\* C31: whenever a session is handed to storage, by end_session, by the
\* implicit end inside start_session or by the end of a root span, every span
\* in it has a terminal status: no span is persisted with status running.
C31_NoRunningSpanPersisted == SavedWithRunningSpan = {}

\* the events of session r, in the order of its event sequence
EventsOf(r) == [j \in 1..Len(sessions[r].events) |-> events[sessions[r].events[j]]]

\* every parent link of session r leads to a span recorded earlier in r
ParentsAreEarlierSpans(r) ==
    \A j \in 1..Len(EventsOf(r)) :
        EventsOf(r)[j].parent_id # NoId =>
            \E i \in 1..(j - 1) :
                /\ EventsOf(r)[i].id = EventsOf(r)[j].parent_id
                /\ EventsOf(r)[i].event_type = "span"

\* C32: in every reachable state, a non-empty span stack implies a current
\* session, every span on the stack is an event of the current session, and
\* every non-empty parent_id is the id of a span that appears earlier in the
\* same session's event sequence (the parent links form a forest).
C32_StackAndParentsWellFormed ==
    /\ event_stack # <<>> => current_session # None
    /\ \A i \in 1..Len(event_stack) :
          \E j \in 1..Len(sessions[current_session].events) :
              sessions[current_session].events[j] = event_stack[i]
    /\ \A r \in 1..Len(sessions) : ParentsAreEarlierSpans(r)

\* C32 witness: two spans are open, the inner one under the outer one, and an
\* event recorded inside them has the inner span as its parent.
C32_Witness ==
    /\ Len(event_stack) = 2
    /\ current_session # None
    /\ events[event_stack[2]].parent_id = events[event_stack[1]].id
    /\ \E j \in 1..Len(EventsOf(current_session)) :
          /\ EventsOf(current_session)[j].event_type # "span"
          /\ EventsOf(current_session)[j].parent_id = events[event_stack[2]].id

\* the calls of span, record_llm_call and record_tool_call that have returned:
\* their events
Recorded ==
    {e \in 1..Len(events) :
        \A t \in Threads : pc[t].e = e => pc[t].at = "idle"}

\* C33: span, record_llm_call and record_tool_call read the current session
\* outside the lock in two steps; for every interleaving with an end_session
\* of another thread the call never fails, and its event lands in a session.
C33_UnlockedReadNeverFails ==
    /\ \A t \in Threads : pc[t].at \notin {"AttributeError", "raise"}
    /\ \A e \in Recorded :
          \E r \in 1..Len(sessions) :
              \E j \in 1..Len(sessions[r].events) : sessions[r].events[j] = e

\* the id of the span on top of the stack, empty when the stack is empty
TopOfStackId == IF event_stack # <<>> THEN events[Top(event_stack)].id ELSE NoId

\* the step appended a new event, under the span on top of the stack, to the
\* session that is current after it
AppendedUnderTop ==
    LET e == Len(events) + 1
    IN /\ Len(events') = e
       /\ events'[e].parent_id = TopOfStackId
       /\ current_session' # None
       /\ Top(sessions'[current_session'].events) = e

\* C34: record_llm_call and record_tool_call append an event whose parent_id
\* is the id of the span on top of the stack at the time of the call, empty
\* when the stack is empty, and leave the stack unchanged; capture_state tags
\* the snapshot's event_id with the same top-of-stack id, empty when the stack
\* is empty, and leaves the stack unchanged.
C34_RecordedUnderTopOfStack ==
    /\ [][\A outcome \in ToolOutcomes :
            RecordToolCall(outcome) =>
                AppendedUnderTop /\ event_stack' = event_stack]_vars
    /\ [][\A has_response \in BOOLEAN :
            RecordLLMCall(has_response) =>
                AppendedUnderTop /\ event_stack' = event_stack]_vars
    /\ [][CaptureState =>
            /\ snapshots'[Len(snapshots')].event_id = TopOfStackId
            /\ Len(snapshots') = Len(snapshots) + 1
            /\ event_stack' = event_stack]_vars

\* C34 witness: inside an open span a call was recorded with the span as its
\* parent and a snapshot was taken that carries the span's id.
C34_Witness ==
    /\ Len(event_stack) = 1
    /\ \E e \in 1..Len(events) :
          /\ events[e].event_type \in {"tool_call", "llm_call"}
          /\ events[e].parent_id = TopOfStackId
    /\ \E n \in 1..Len(snapshots) : snapshots[n].event_id = TopOfStackId

\* the declared type of a serialized node
DeclaredType(node) == IF "_type" \in DOMAIN node THEN node._type ELSE "None"

\* the node is mapping-tagged: its value is a dict of serialized nodes
MappingTagged(node) == "_value" \in DOMAIN node /\ "dict" \in DOMAIN node._value

\* the keys of a mapping-tagged node, and the node under a key
MappingKeys(node) ==
    {node._value.dict[i].key.name : i \in 1..Len(node._value.dict)}

MappingItem(node, key) ==
    node._value.dict[CHOOSE i \in 1..Len(node._value.dict) :
                         node._value.dict[i].key.name = key].tree

\* the paths below path in the tree of node
RECURSIVE PathsBelow(_, _)
PathsBelow(node, path) ==
    IF ~MappingTagged(node) THEN {}
    ELSE UNION {{path \o "." \o key}
                    \cup PathsBelow(MappingItem(node, key), path \o "." \o key) :
                key \in MappingKeys(node)}

\* the pairs of nodes that stand at the same path of the two trees, the path
\* leading through mappings of the same declared type
RECURSIVE NodePairs(_, _, _)
NodePairs(earlier, later, path) ==
    {[path |-> path, earlier |-> earlier, later |-> later]}
    \cup (IF /\ MappingTagged(earlier) /\ MappingTagged(later)
             /\ DeclaredType(earlier) = DeclaredType(later)
          THEN UNION {NodePairs(MappingItem(earlier, key), MappingItem(later, key),
                                path \o "." \o key) :
                      key \in MappingKeys(earlier) \cap MappingKeys(later)}
          ELSE {})

\* the pairs of nodes of the two snapshots diffed
DiffedPairs == NodePairs(captured.snapshot.state, captured2.snapshot.state, "root")

\* the entries of the diff at a path
EntriesAt(path) == {entry \in changes.entries : entry.path = path}

\* C35: when the declared types of the two serialized nodes at a path differ,
\* the diff contains exactly one entry for that path, of type type_changed
\* with the earlier and later type names as from and to, and no entry for any
\* path below it.
C35_TypeChangeDominates ==
    changes.done =>
        \A pair \in DiffedPairs :
            DeclaredType(pair.earlier) # DeclaredType(pair.later) =>
                /\ EntriesAt(pair.path) =
                       {[path |-> pair.path, type |-> "type_changed",
                         from_type |-> DeclaredType(pair.earlier),
                         to_type |-> DeclaredType(pair.later)]}
                /\ \A below \in PathsBelow(pair.earlier, pair.path)
                                  \cup PathsBelow(pair.later, pair.path) :
                       EntriesAt(below) = {}

\* C36: when both nodes at a path are mapping-tagged and unequal, each key
\* present only in the earlier tree yields one removed entry at path.key, each
\* key present only in the later tree yields one added entry at path.key, and
\* a key present in both contributes entries only if the two values differ.
C36_MappingsDiffedByKey ==
    changes.done =>
        \A pair \in DiffedPairs :
            (/\ MappingTagged(pair.earlier) /\ MappingTagged(pair.later)
             /\ DeclaredType(pair.earlier) = DeclaredType(pair.later)
             /\ pair.earlier # pair.later) =>
                /\ \A key \in MappingKeys(pair.earlier) \ MappingKeys(pair.later) :
                       EntriesAt(pair.path \o "." \o key) =
                           {[path |-> pair.path \o "." \o key, type |-> "removed",
                             value |-> MappingItem(pair.earlier, key)]}
                /\ \A key \in MappingKeys(pair.later) \ MappingKeys(pair.earlier) :
                       EntriesAt(pair.path \o "." \o key) =
                           {[path |-> pair.path \o "." \o key, type |-> "added",
                             value |-> MappingItem(pair.later, key)]}
                /\ \A key \in MappingKeys(pair.earlier) \cap MappingKeys(pair.later) :
                       MappingItem(pair.earlier, key) = MappingItem(pair.later, key) =>
                           \A at \in {pair.path \o "." \o key}
                                       \cup PathsBelow(MappingItem(pair.earlier, key),
                                                       pair.path \o "." \o key) :
                               EntriesAt(at) = {}

\* C40: the diff of two snapshots is empty if and only if their serialized
\* state trees are equal: any difference between the trees, one in a node's
\* module name alone included, produces at least one entry.
C40_DiffEmptyIffEqual ==
    changes.done =>
        (changes.entries = {} <=> captured.snapshot.state = captured2.snapshot.state)

\* what serializing item i of the value captured came to, as the loop of the
\* value's own serialization called it
ItemSerialized(i) ==
    _serialize_state(heap, heap[1].items[i].val, ChildPath(heap[1], "root", i),
                     max_depth - 1)

\* C37: the restorable flag of a serialized sequence or mapping is true if and
\* only if every element or value subtree is restorable; and a snapshot whose
\* restorable flag is false carries at least one serialization warning.
C37_RestorableIffAllItems ==
    /\ (Captured /\ heap[1].k \in {"list", "dict"}) =>
           (captured.snapshot.restorable
                <=> \A i \in 1..Len(heap[1].items) : ItemSerialized(i).restorable)
    /\ (Captured /\ ~captured.snapshot.restorable) =>
           captured.snapshot.serialization_warnings # <<>>

\* C37 witness: a list of two items was captured, the first restorable, the
\* second not; the snapshot is not restorable and carries a warning.
C37_Witness ==
    /\ Captured
    /\ heap[1].k = "list"
    /\ Len(heap[1].items) = 2
    /\ ItemSerialized(1).restorable
    /\ ~ItemSerialized(2).restorable
    /\ ~captured.snapshot.restorable
    /\ captured.snapshot.serialization_warnings # <<>>

\* C38: a function decorated with one Recorder's trace method records into
\* that Recorder: called after a second Recorder was constructed in the same
\* execution context, it still records into the first.
C38_TraceRecordsIntoItsRecorder ==
    [][\A c \in 1..Len(contexts), self \in 1..MaxRecorders :
          (CallDecorated(c, self) /\ get_current_recorder(c) # None) =>
              trace_calls'[Len(trace_calls')].recorder = self]_vars

\* the index holds at most one entry per session id, an entry exactly for
\* the sessions whose file exists, most recently saved first
IndexWellFormed(D) ==
    /\ \A i, j \in 1..Len(D.index) : D.index[i].id = D.index[j].id => i = j
    /\ {D.index[i].id : i \in 1..Len(D.index)} = {f.id : f \in D.files}
    /\ \A i, j \in 1..Len(D.index) : i < j => D.index[i].saved > D.index[j].saved

\* C39: after any sequence of save_session and delete_session calls the index
\* holds at most one entry per session id, an entry exactly for the sessions
\* whose file exists, most recently saved first; list_sessions(limit) returns
\* the first limit entries, delete_session of an absent id returns false and
\* changes nothing, and load_session of an absent id fails with not-found.
C39_IndexMatchesFiles ==
    [][/\ IndexWellFormed(disk')
       /\ \A n \in 0..MaxStoreIds :
             ListSessions(n) =>
                 /\ Len(disk'.last.result) = (IF n < Len(disk.index) THEN n
                                               ELSE Len(disk.index))
                 /\ \A i \in 1..Len(disk'.last.result) :
                        disk'.last.result[i] = disk.index[i]
       /\ \A session_id \in StoreIds :
             (DeleteSession(session_id) /\ ~Exists(disk, session_id)) =>
                 /\ disk'.last.result = "False"
                 /\ disk'.files = disk.files /\ disk'.index = disk.index
       /\ \A session_id \in StoreIds :
             (LoadSession(session_id) /\ ~Exists(disk, session_id)) =>
                 disk'.last.result = "FileNotFoundError"]_vars

====
